---- MODULE Spec2Model ----
(***************************************************************************)
(* Model of the multi-source extraction and reconciliation pipeline:       *)
(* the case store (table `cases`), the per-source reconcilers              *)
(* (process_case), the dedup maintenance pass, the static-URL run loops    *)
(* and the clickable-pager adapter.                                        *)
(***************************************************************************)
EXTENDS Integers, Sequences, FiniteSets, TLC

VARIABLES
    store,      \* the rows of table `cases` (a set of records, ids unique)
    files,      \* paths that exist in data/attachments
    now,        \* the wall clock read by datetime.now() / CURRENT_TIMESTAMP
    last,       \* what the last store operation did (history, for the properties)
    run,        \* state of one static-URL source run (run() of a region scraper)
    pager       \* state of the clickable-pager adapter (CaseScraper)

vars == <<store, files, now, last, run, pager>>

----------------------------------------------------------------------------
(* Values *)

NULL == "NULL"          \* Python None / SQL NULL for a string column
EMPTY == ""             \* the empty string
NoDate == 0             \* None / NULL for a date column; dates are 1, 2, ...
NoTime == 0             \* NULL created_at; the clock starts at 1
NoPath == <<>>          \* None / NULL attachment_path; paths are tuples
NoAtt == "noatt"        \* the detail page links no attachment

\* Region labels written by the reconcilers (ASCII for the Chinese labels).
RegionShaanxi == "Shaanxi"        \* '陕西'
RegionBeijing == "Beijing"        \* '北京'
RegionShanghai == "Shanghai"      \* '上海'
RegionChongqing == "Chongqing"    \* '重庆'
RegionSamr == "SAMR"              \* '国家市场监督管理总局'
RegionHead == "Head office"       \* '总局'
RegionGuangdong == "Guangdong"    \* '广东'
RegionUnknown == "Unknown"        \* '未知'

\* models.Case: one row of table `cases`.
\* `matched` is the column 是否已匹配 and `decided` the column 审结时间 that
\* alter_db.py adds and the approval scrape writes.
Case(id, name, sd, ed, url, region, path, created) ==
    [id |-> id, case_name |-> name, notice_start_date |-> sd,
     notice_end_date |-> ed, source_url |-> url, region |-> region,
     attachment_path |-> path, created_at |-> created,
     matched |-> NULL, decided |-> NoDate]

NoUrl == <<>>

NoRec == Case(0, NULL, NoDate, NoDate, NoUrl, NULL, NoPath, NoTime)

\* The detail page could not be fetched or parsed (parse_detail_page returns None).
NoDetail == [ok |-> FALSE, title |-> NULL, start |-> NoDate, end |-> NoDate, att |-> NoAtt]

Detail(t, sd, ed, att) == [ok |-> TRUE, title |-> t, start |-> sd, end |-> ed, att |-> att]

----------------------------------------------------------------------------
(* The case store *)

Ids(s) == {r.id : r \in s}

MaxOf(S) == CHOOSE m \in S : \A x \in S : x <= m

MinOf(S) == CHOOSE m \in S : \A x \in S : m <= x

\* INTEGER PRIMARY KEY of SQLite: the next rowid is the largest one in use plus one.
NextId(s) == IF s = {} THEN 1 ELSE MaxOf(Ids(s)) + 1

\* Faulty variant of the lookup by name: it never finds a row.
FirstByNameBlind(s, name) == NoRec

Matching(s, name) == {r \in s : r.case_name = name}

\* query(Case).filter(Case.case_name == name).first(): the first matching row in
\* rowid order, or None.
FirstByName(s, name) ==
    IF Matching(s, name) = {} THEN NoRec
    ELSE CHOOSE r \in Matching(s, name) : r.id = MinOf(Ids(Matching(s, name)))

\* The ORM object `existing` written back with its new field values.
\* Faulty variant of the in-place update: the row is dropped.
ReplaceDropping(s, old, new) == s \ {old}

Replace(s, old, new) == (s \ {old}) \cup {new}

\* Python truthiness of a string column (None and '' are false).
\* Faulty variant of the rollback: the pending changes of the session stay.
RolledBackKept(before, pending) == pending

\* session.rollback() after a commit that raised: the pending changes are
\* discarded, the table is as it was before the attempt.
RolledBack(before, pending) == before

Truthy(v) == v # NULL /\ v # EMPTY

----------------------------------------------------------------------------
(* URLs and the page type resolver of CaseScraper *)

\* A URL is <<host, n>>: the n-th document of a host.
HostSamr == "www.samr.gov.cn"
HostBeijing == "scjgj.beijing.gov.cn"
HostShanghai == "scjgj.sh.gov.cn"
HostChongqing == "scjgj.cq.gov.cn"
HostGuangdong == "amr.gd.gov.cn"
HostShaanxi == "snamr.shaanxi.gov.cn"
HostOther == "example.org"

\* `domain in url` for the hosts above: the pairs <<host, domain>> for which the
\* domain string occurs in the host.
DomainIn == {<<HostSamr, "samr.gov.cn">>, <<HostBeijing, "scjgj.beijing.gov.cn">>,
             <<HostShanghai, "scjgj.sh.gov.cn">>, <<HostChongqing, "scjgj.cq.gov.cn">>,
             <<HostGuangdong, "amr.gd.gov.cn">>, <<HostShaanxi, "snamr.shaanxi.gov.cn">>}

\* CaseScraper.get_page_type: the first domain of domain_map, in insertion
\* order, that the URL contains; None otherwise.
GetPageType(url) ==
    CASE <<url[1], "scjgj.beijing.gov.cn">> \in DomainIn -> "beijing"
      [] <<url[1], "scjgj.sh.gov.cn">> \in DomainIn -> "shanghai"
      [] <<url[1], "scjgj.cq.gov.cn">> \in DomainIn -> "chongqing"
      [] <<url[1], "amr.gd.gov.cn">> \in DomainIn -> "guangdong"
      [] <<url[1], "scjgj.shaanxi.gov.cn">> \in DomainIn -> "shaanxi"
      [] <<url[1], "samr.gov.cn">> \in DomainIn -> "samr"
      [] OTHER -> NULL

\* CaseScraper.get_region_name.
GetRegionName(pageType) ==
    CASE pageType = "beijing" -> RegionBeijing
      [] pageType = "shanghai" -> RegionShanghai
      [] pageType = "chongqing" -> RegionChongqing
      [] pageType = "guangdong" -> RegionGuangdong
      [] pageType = "shaanxi" -> RegionShaanxi
      [] pageType = "samr" -> RegionSamr
      [] OTHER -> RegionUnknown

----------------------------------------------------------------------------
(* Attachment fetchers.  Each returns [path, files, net, target]: the value  *)
(* handed back to the caller, the attachment directory afterwards, whether   *)
(* a network request was made and the local path the fetcher works on.       *)
(* `dl` is the outcome of the network download: "ok", "fail_pre" (the        *)
(* request fails before the local file is opened) or "fail_mid" (it fails    *)
(* while the file is written).                                               *)

DlOutcomes == {"ok", "fail_pre", "fail_mid"}

\* Attachment URLs whose last path segment is a usable file name (it has a
\* dot and at least five characters); the others have none.
PlausibleAtts == {"a1.pdf", "a2.pdf"}

\* Attachment URLs with a directory part: two documents of the same file
\* name published in two directories of the site.
DirAtts == {"d1/a1.pdf", "d2/a1.pdf"}

\* os.path.basename of the URL's path: the last path segment.
Basename(att) == IF att \in DirAtts THEN "a1.pdf" ELSE att

\* File name derived from the URL's last segment, else from the case name.
UrlFileName(case_name, att) ==
    IF Basename(att) \in PlausibleAtts
    THEN <<"url", Basename(att)>> ELSE <<"case", case_name, att>>

\* File name derived from the case title and the URL's extension.
TitleFileName(case_title, att) == <<"title", case_title, att>>

Fetched(path, fs, net, target) ==
    [path |-> path, files |-> fs, net |-> net, target |-> target]

\* except branch of the fetchers that do not clean up: None is returned, and
\* what was written before the failure stays on disk.
FailedKeeping(p, dl, fs) ==
    Fetched(NoPath, IF dl = "fail_mid" THEN fs \cup {p} ELSE fs, TRUE, p)

\* except branch of the fetchers that remove the partial file.
FailedRemoving(p, dl, fs) == Fetched(NoPath, fs \ {p}, TRUE, p)

\* ShaanxiScraper.download_attachment(case_name, attachment_url).
ShaanxiDownload(case_name, att, dl, fs) ==
    IF att = NoAtt THEN Fetched(NoPath, fs, FALSE, NoPath)
    ELSE LET p == UrlFileName(case_name, att) IN
         IF p \in fs THEN Fetched(p, fs, FALSE, p)
         ELSE IF dl = "ok" THEN Fetched(p, fs \cup {p}, TRUE, p)
         ELSE FailedKeeping(p, dl, fs)

\* BeijingScraper.download_attachment(url, save_path): True/False as path/NoPath.
BeijingDownload(p, dl, fs) ==
    IF dl = "ok" THEN Fetched(p, fs \cup {p}, TRUE, p)
    ELSE FailedRemoving(p, dl, fs)

\* ShanghaiScraper.download_attachment(url, save_path).
ShanghaiDownload(p, dl, fs) ==
    IF p \in fs THEN Fetched(p, fs, FALSE, p)
    ELSE IF dl = "ok" THEN Fetched(p, fs \cup {p}, TRUE, p)
    ELSE FailedRemoving(p, dl, fs)

\* ChongqingScraper.download_attachment(case_name, attachment_url).
ChongqingDownload(case_name, att, dl, fs) ==
    IF att = NoAtt THEN Fetched(NoPath, fs, FALSE, NoPath)
    ELSE LET p == UrlFileName(case_name, att) IN
         IF p \in fs THEN Fetched(p, fs, FALSE, p)
         ELSE IF dl = "ok" THEN Fetched(p, fs \cup {p}, TRUE, p)
         ELSE FailedKeeping(p, dl, fs)

\* Faulty variant of CaseScraper.download_attachment: no test for the file.
SamrDownloadAgain(case_name, att, dl, fs) ==
    LET p == TitleFileName(case_name, att) IN
    IF dl = "ok" THEN Fetched(p, fs \cup {p}, TRUE, p)
    ELSE FailedKeeping(p, dl, fs)

\* CaseScraper.download_attachment(url, case_name).
SamrDownload(case_name, att, dl, fs) ==
    LET p == TitleFileName(case_name, att) IN
    IF p \in fs THEN Fetched(p, fs, FALSE, p)
    ELSE IF dl = "ok" THEN Fetched(p, fs \cup {p}, TRUE, p)
    ELSE FailedKeeping(p, dl, fs)

\* The attachment step of a process_case yields [path, files, net, target,
\* ret]: path is the value of attachment_path afterwards, ret what the fetch
\* yielded.  NoFetch: the step does nothing.
NoFetch(fs) ==
    [path |-> NoPath, files |-> fs, net |-> FALSE, target |-> NoPath, ret |-> NoPath]

\* BeijingScraper.process_case, the attachment step: the path is built from
\* the case title; the file is downloaded unless it exists.
BeijingAttachment(title, att, dl, fs) ==
    IF att = NoAtt THEN NoFetch(fs)
    ELSE LET p == TitleFileName(title, att)
             got == IF p \in fs THEN Fetched(p, fs, FALSE, p) ELSE BeijingDownload(p, dl, fs)
         IN [path |-> p, files |-> got.files, net |-> got.net, target |-> p,
             ret |-> got.path]

----------------------------------------------------------------------------
(* Reconcilers: one process_case per source.  Parameters: the listing entry  *)
(* (title, url), what the detail page yields (d), the download outcome (dl)  *)
(* and whether the commit succeeds (commitOk).                               *)

\* History of the last store operation: its kind, the source and the id of the
\* row it wrote (0: none).  n counts the rows a maintenance pass removed.
Op(op, src, id) == [op |-> op, src |-> src, id |-> id, n |-> 0]

NoOp == Op("none", "none", 0)

\* ShaanxiScraper.process_case, Update path: the fields assigned to existing_case.
ShaanxiUpdated(existing, final, url, d, got) ==
    [existing EXCEPT
        !.case_name = final,
        !.region = RegionShaanxi,
        !.notice_start_date = d.start,
        !.notice_end_date = d.end,
        !.attachment_path = IF got.path # NoPath THEN got.path ELSE @,
        !.source_url = url,
        !.created_at = now]

\* ShaanxiScraper.process_case.
ShaanxiProcessCase(title, url, d, dl, commitOk) ==
    LET byList == FirstByName(store, title)
        existing == IF byList = NoRec /\ Truthy(d.title) /\ d.title # title
                    THEN FirstByName(store, d.title) ELSE byList
        final == IF Truthy(d.title) THEN d.title ELSE title
    IN
    IF ~d.ok THEN
        /\ last' = Op("skip", "shaanxi", 0)
        /\ UNCHANGED <<store, files>>
    ELSE IF existing # NoRec THEN
        LET got == IF existing.attachment_path = NoPath /\ d.att # NoAtt
                   THEN ShaanxiDownload(final, d.att, dl, files)
                   ELSE [path |-> NoPath, files |-> files]
        IN
        /\ files' = got.files
        /\ IF commitOk
           THEN /\ store' = Replace(store, existing, ShaanxiUpdated(existing, final, url, d, got))
                /\ last' = Op("update", "shaanxi", existing.id)
           ELSE /\ store' = RolledBack(store,
                                      Replace(store, existing,
                                              ShaanxiUpdated(existing, final, url, d, got)))
                /\ last' = Op("rollback", "shaanxi", 0)
    ELSE IF final # title /\ FirstByName(store, final) # NoRec THEN
        /\ last' = Op("skip", "shaanxi", 0)
        /\ UNCHANGED <<store, files>>
    ELSE
        LET got == ShaanxiDownload(final, d.att, dl, files)
            new == Case(NextId(store), final, d.start, d.end, url, RegionShaanxi, got.path, now)
        IN
        /\ files' = got.files
        /\ IF commitOk
           THEN /\ store' = store \cup {new}
                /\ last' = Op("insert", "shaanxi", new.id)
           ELSE /\ store' = RolledBack(store, store \cup {new})
                /\ last' = Op("rollback", "shaanxi", 0)

\* Beijing/Shanghai/Chongqing process_case, Update path: region correction and
\* fill of the empty dates.
FillUpdated(existing, region, d) ==
    [existing EXCEPT
        !.region = region,
        !.notice_start_date = IF @ = NoDate /\ d.start # NoDate THEN d.start ELSE @,
        !.notice_end_date = IF @ = NoDate /\ d.end # NoDate THEN d.end ELSE @]

\* BeijingScraper.process_case.
BeijingProcessCase(title, url, d, dl, commitOk) ==
    LET existing == FirstByName(store, title)
        got == BeijingAttachment(title, d.att, dl, files)
        p == got.path
    IN
    IF ~d.ok THEN
        /\ last' = Op("skip", "beijing", 0)
        /\ UNCHANGED <<store, files>>
    ELSE
        /\ files' = got.files
        /\ IF existing # NoRec THEN
              LET upd == FillUpdated(existing, RegionBeijing, d) IN
              IF upd = existing THEN
                  /\ store' = store
                  /\ last' = Op("nochange", "beijing", existing.id)
              ELSE IF commitOk THEN
                  /\ store' = Replace(store, existing, upd)
                  /\ last' = Op("update", "beijing", existing.id)
              ELSE
                  /\ store' = RolledBack(store, Replace(store, existing, upd))
                  /\ last' = Op("rollback", "beijing", 0)
           ELSE
              LET new == Case(NextId(store), title, d.start, d.end, url, RegionBeijing, p, now) IN
              IF commitOk THEN
                  /\ store' = store \cup {new}
                  /\ last' = Op("insert", "beijing", new.id)
              ELSE
                  /\ store' = RolledBack(store, store \cup {new})
                  /\ last' = Op("rollback", "beijing", 0)

\* File name taken from the attachment link's text (attachment_name); the
\* links of the site show the file name of the document.
LinkFileName(att) == <<"link", Basename(att)>>

\* ShanghaiScraper.process_case, the attachment step: the file is fetched
\* when the case is new or its record has no attachment_path, and the path
\* is kept only when the fetcher reports success.
ShanghaiAttachment(existing, att, dl, fs) ==
    IF att # NoAtt /\ (existing = NoRec \/ existing.attachment_path = NoPath)
    THEN LET got == ShanghaiDownload(LinkFileName(att), dl, fs) IN
         [path |-> got.path, files |-> got.files, net |-> got.net,
          target |-> got.target, ret |-> got.path]
    ELSE NoFetch(fs)

\* ShanghaiScraper.process_case.
ShanghaiProcessCase(title, url, d, dl, commitOk) ==
    LET existing == FirstByName(store, title)
        got == ShanghaiAttachment(existing, d.att, dl, files)
    IN
    IF ~d.ok THEN
        /\ last' = Op("skip", "shanghai", 0)
        /\ UNCHANGED <<store, files>>
    ELSE
        /\ files' = got.files
        /\ IF existing # NoRec THEN
              LET upd == [FillUpdated(existing, RegionShanghai, d) EXCEPT
                             !.attachment_path =
                                 IF got.path # NoPath /\ @ = NoPath THEN got.path ELSE @]
              IN
              IF upd = existing THEN
                  /\ store' = store
                  /\ last' = Op("nochange", "shanghai", existing.id)
              ELSE IF commitOk THEN
                  /\ store' = Replace(store, existing, upd)
                  /\ last' = Op("update", "shanghai", existing.id)
              ELSE
                  /\ store' = RolledBack(store, Replace(store, existing, upd))
                  /\ last' = Op("rollback", "shanghai", 0)
           ELSE
              LET new == Case(NextId(store), title, d.start, d.end, url, RegionShanghai,
                              got.path, now) IN
              IF commitOk THEN
                  /\ store' = store \cup {new}
                  /\ last' = Op("insert", "shanghai", new.id)
              ELSE
                  /\ store' = RolledBack(store, store \cup {new})
                  /\ last' = Op("rollback", "shanghai", 0)

\* ChongqingScraper.process_case, the attachment step: attachment_path is
\* built from the case title; when no file is there, download_attachment is
\* called, which derives its own file name from the URL.
ChongqingAttachment(title, att, dl, fs) ==
    IF att = NoAtt THEN NoFetch(fs)
    ELSE LET p == TitleFileName(title, att)
             got == IF p \in fs THEN Fetched(p, fs, FALSE, p)
                    ELSE ChongqingDownload(title, att, dl, fs)
         IN [path |-> p, files |-> got.files, net |-> got.net, target |-> got.target,
             ret |-> got.path]

\* ChongqingScraper.process_case.
ChongqingProcessCase(title, url, d, dl, commitOk) ==
    LET existing == FirstByName(store, title)
        got == ChongqingAttachment(title, d.att, dl, files)
        p == got.path
    IN
    IF ~d.ok THEN
        /\ last' = Op("skip", "chongqing", 0)
        /\ UNCHANGED <<store, files>>
    ELSE
        /\ files' = got.files
        /\ IF existing # NoRec THEN
              LET upd == FillUpdated(existing, RegionChongqing, d) IN
              IF upd = existing THEN
                  /\ store' = store
                  /\ last' = Op("nochange", "chongqing", existing.id)
              ELSE IF commitOk THEN
                  /\ store' = Replace(store, existing, upd)
                  /\ last' = Op("update", "chongqing", existing.id)
              ELSE
                  /\ store' = RolledBack(store, Replace(store, existing, upd))
                  /\ last' = Op("rollback", "chongqing", 0)
           ELSE
              LET new == Case(NextId(store), title, d.start, d.end, url, RegionChongqing,
                              p, now) IN
              IF commitOk THEN
                  /\ store' = store \cup {new}
                  /\ last' = Op("insert", "chongqing", new.id)
              ELSE
                  /\ store' = RolledBack(store, store \cup {new})
                  /\ last' = Op("rollback", "chongqing", 0)

\* CaseScraper.save_to_db, the UPDATE statement applied to one row: dates are
\* filled when NULL, region when NULL or ''.
SaveToDbUpdated(r, region, d) ==
    [r EXCEPT
        !.notice_start_date = IF @ = NoDate /\ d.start # NoDate THEN d.start ELSE @,
        !.notice_end_date = IF @ = NoDate /\ d.end # NoDate THEN d.end ELSE @,
        !.region = IF ~Truthy(@) /\ region # EMPTY THEN region ELSE @]

\* CaseScraper.process_case, the attachment step: a case that has a record
\* under the detail page's title takes the record's attachment_path and
\* fetches nothing; otherwise the attachment, if any, is downloaded.
SamrAttachment(byDetail, case_name, att, dl, fs) ==
    IF byDetail # NoRec
    THEN [NoFetch(fs) EXCEPT !.path = byDetail.attachment_path]
    ELSE IF att # NoAtt
    THEN LET got == SamrDownload(case_name, att, dl, fs) IN
         [path |-> got.path, files |-> got.files, net |-> got.net,
          target |-> got.target, ret |-> got.path]
    ELSE NoFetch(fs)

\* CaseScraper.process_case followed by CaseScraper.save_to_db.  The detail
\* page's title (case_name) decides the attachment; the listing title is the
\* name the row is looked up and saved under.
SamrProcessCase(title, url, d, dl, commitOk) ==
    LET pageType == GetPageType(url)
        got == SamrAttachment(FirstByName(store, d.title), d.title, d.att, dl, files)
        region == GetRegionName(pageType)
        existing == FirstByName(store, title)
        saved == IF existing # NoRec
                 THEN {IF r.case_name = title THEN SaveToDbUpdated(r, region, d) ELSE r
                         : r \in store}
                 ELSE store \cup {Case(NextId(store), title, d.start, d.end, url, region,
                                       got.path, now)}
    IN
    IF ~d.ok \/ pageType = NULL \/ ~Truthy(d.title) THEN
        /\ last' = Op("skip", "samr", 0)
        /\ UNCHANGED <<store, files>>
    ELSE
        /\ files' = got.files
        /\ IF ~commitOk THEN
              /\ store' = RolledBack(store, saved)
              /\ last' = Op("rollback", "samr", 0)
           ELSE IF existing # NoRec THEN
              /\ store' = saved
              /\ last' = Op("update", "samr", existing.id)
           ELSE
              /\ store' = saved
              /\ last' = Op("insert", "samr", NextId(store))

----------------------------------------------------------------------------
(* The approval-list scrape and the dedup maintenance pass *)

\* ApprovalScraper.process_detail_page, the loop over the table rows: a row is
\* [name, date, err]; date = NoDate stands for a date convert_chinese_date
\* rejects, err for a statement of the row that raises.
RECURSIVE ApprovalRows(_, _, _)
ApprovalRows(s, rows, pageUrl) ==
    IF rows = <<>> THEN s
    ELSE LET row == Head(rows)
             existing == FirstByName(s, row.name)
         IN
         IF row.date = NoDate THEN ApprovalRows(s, Tail(rows), pageUrl)
         ELSE IF existing # NoRec THEN
             ApprovalRows(Replace(s, existing,
                                  [existing EXCEPT !.matched = "Y", !.decided = row.date]),
                          Tail(rows), pageUrl)
         ELSE
             ApprovalRows(s \cup {[Case(NextId(s), row.name, NoDate, NoDate, pageUrl, NULL,
                                        NoPath, NoTime)
                                      EXCEPT !.matched = "N", !.decided = row.date]},
                          Tail(rows), pageUrl)

\* A row of the table raises: its date was accepted (a rejected date skips
\* the row before any statement) and one of its statements fails.
RowRaises(rows) == \E k \in 1..Len(rows) : rows[k].date # NoDate /\ rows[k].err

\* ApprovalScraper.process_detail_page: one commit for the whole table, or a
\* rollback when anything raises.
ApprovalProcessDetailPage(rows, pageUrl, commitOk) ==
    /\ files' = files
    /\ IF commitOk /\ ~RowRaises(rows)
       THEN /\ store' = ApprovalRows(store, rows, pageUrl)
            /\ last' = Op("approval", "approval", 0)
       ELSE /\ store' = store
            /\ last' = Op("rollback", "approval", 0)

SameUrl(s, u) == {r \in s : r.source_url = u}

\* The source_url values that find_duplicates_sql reports: not NULL, not '',
\* shared by more than one row.
DuplicateUrls(s) ==
    {u \in {r.source_url : r \in s} : u # NoUrl /\ Cardinality(SameUrl(s, u)) > 1}

\* Faulty variant of delete_sql: MIN(rowid) in place of MAX(rowid).
DeduplicatedKeepingLowest(s) == {r \in s : r.id = MinOf(Ids(SameUrl(s, r.source_url)))}

\* delete_sql: rows whose rowid is not the MAX(rowid) of their source_url group.
Deduplicated(s) == {r \in s : r.id = MaxOf(Ids(SameUrl(s, r.source_url)))}

\* deduplicate_by_source_url: returns early on an empty table or when no URL is
\* duplicated; a database error rolls the deletion back.
DeduplicateBySourceUrl(dbOk) ==
    /\ files' = files
    /\ IF ~dbOk THEN
          /\ store' = store
          /\ last' = Op("dedup_failed", "maintenance", 0)
       ELSE IF store = {} \/ DuplicateUrls(store) = {} THEN
          /\ store' = store
          /\ last' = Op("dedup", "maintenance", 0)
       ELSE
          /\ store' = Deduplicated(store)
          /\ last' = [Op("dedup", "maintenance", 0) EXCEPT
                          !.n = Cardinality(store) - Cardinality(Deduplicated(store))]

----------------------------------------------------------------------------
(* The environment of the reconcilers: what a listing entry and its detail   *)
(* page can hold, whether the download and the commit succeed.               *)

MaxRetries == 3     \* max_retries, the attempts an adapter may make on a page
MaxId == 2          \* last id the store hands out (SpecReconcile, SpecInsert)
PlMaxId == 3        \* last id the store hands out (SpecPipeline)

Bounded(s, max) == \A r \in s : r.id <= max

RunIdle == [pc |-> "idle"]
PagerIdle == [pc |-> "idle"]

Titles == {"A", "B"}
DatePairs == {<<NoDate, NoDate>>, <<1, 2>>, <<3, 4>>}

\* Detail pages with a title from ts, dates from ps and an attachment from as;
\* NoDetail is the page that could not be fetched or parsed.
Details(ts, ps, as) ==
    {NoDetail} \cup {Detail(t, p[1], p[2], a) : t \in ts, p \in ps, a \in as}

\* One call of a reconciler: listing title, number of the detail URL on the
\* source's host, detail page, download outcome, commit outcome.
Inputs(ts, ns, ds, dls, cs) ==
    [title : ts, n : ns, d : ds, dl : dls, c : cs]

InitStore ==
    /\ store = {}
    /\ files = {}
    /\ now = 1
    /\ last = NoOp

RcShaanxi(ins, max) ==
    \E i \in ins :
        /\ ShaanxiProcessCase(i.title, <<HostShaanxi, i.n>>, i.d, i.dl, i.c)
        /\ Bounded(store', max)
        /\ UNCHANGED <<now, run, pager>>

RcBeijing(ins, max) ==
    \E i \in ins :
        /\ BeijingProcessCase(i.title, <<HostBeijing, i.n>>, i.d, i.dl, i.c)
        /\ Bounded(store', max)
        /\ UNCHANGED <<now, run, pager>>

RcShanghai(ins, max) ==
    \E i \in ins :
        /\ ShanghaiProcessCase(i.title, <<HostShanghai, i.n>>, i.d, i.dl, i.c)
        /\ Bounded(store', max)
        /\ UNCHANGED <<now, run, pager>>

RcChongqing(ins, max) ==
    \E i \in ins :
        /\ ChongqingProcessCase(i.title, <<HostChongqing, i.n>>, i.d, i.dl, i.c)
        /\ Bounded(store', max)
        /\ UNCHANGED <<now, run, pager>>

RcSamr(ins, max) ==
    \E i \in ins :
        /\ SamrProcessCase(i.title, <<HostSamr, i.n>>, i.d, i.dl, i.c)
        /\ Bounded(store', max)
        /\ UNCHANGED <<now, run, pager>>

RcApproval(ts, max) ==
    \E t \in ts, dt \in {NoDate, 5}, c \in BOOLEAN :
        /\ ApprovalProcessDetailPage(<<[name |-> t, date |-> dt, err |-> FALSE]>>,
                                     <<HostSamr, 9>>, c)
        /\ Bounded(store', max)
        /\ UNCHANGED <<now, run, pager>>

RcDedup ==
    \E ok \in BOOLEAN :
        /\ DeduplicateBySourceUrl(ok)
        /\ UNCHANGED <<now, run, pager>>

----------------------------------------------------------------------------
(* Specification SpecReconcile: the reconcilers of three sources applied in  *)
(* any order to one store.                                                   *)

RcInit == InitStore /\ run = RunIdle /\ pager = PagerIdle

RcShaanxiIn ==
    Inputs(Titles, {1}, Details({NULL, "B"}, DatePairs, {NoAtt}), {"ok"}, BOOLEAN)
RcStaticIn ==
    Inputs(Titles, {1}, Details({NULL}, DatePairs, {NoAtt}), {"ok"}, BOOLEAN)
RcSamrIn ==
    Inputs(Titles, {1}, Details({"A"}, DatePairs, {NoAtt}), {"ok"}, BOOLEAN)

RcNext ==
    \/ RcShaanxi(RcShaanxiIn, MaxId)
    \/ RcBeijing(RcStaticIn, MaxId)
    \/ RcSamr(RcSamrIn, MaxId)

SpecReconcile == RcInit /\ [][RcNext]_vars

----------------------------------------------------------------------------
(* Specification SpecInsert: the reconcilers of all five sources, every      *)
(* detail page carrying the same dates.                                      *)

InShaanxiIn ==
    Inputs(Titles, {1}, Details({NULL, "B"}, {<<1, 2>>}, {NoAtt}), {"ok"}, BOOLEAN)
InStaticIn ==
    Inputs(Titles, {1}, Details({NULL}, {<<1, 2>>}, {NoAtt}), {"ok"}, BOOLEAN)
InSamrIn ==
    Inputs(Titles, {1}, Details({"A"}, {<<1, 2>>}, {NoAtt}), {"ok"}, BOOLEAN)

InNext ==
    \/ RcShaanxi(InShaanxiIn, MaxId)
    \/ RcBeijing(InStaticIn, MaxId)
    \/ RcShanghai(InStaticIn, MaxId)
    \/ RcChongqing(InStaticIn, MaxId)
    \/ RcSamr(InSamrIn, MaxId)

SpecInsert == RcInit /\ [][InNext]_vars

----------------------------------------------------------------------------
(* Specification SpecPipeline: one region scraper, the approval scrape and   *)
(* the maintenance pass on one store; two detail URLs per host.              *)

PlShaanxiIn ==
    Inputs(Titles, {1, 2}, Details({NULL, "B"}, {<<1, 2>>}, {NoAtt}), {"ok"}, BOOLEAN)

PlNext ==
    \/ RcShaanxi(PlShaanxiIn, PlMaxId)
    \/ RcApproval(Titles, PlMaxId)
    \/ RcDedup

SpecPipeline == RcInit /\ [][PlNext]_vars

----------------------------------------------------------------------------
(* Specification SpecApproval: the approval scrape hands tables of two rows  *)
(* to process_detail_page, on a store the SAMR listing scraper fills; run    *)
(* holds the table handed over last.                                         *)

ApRows == [name : Titles, date : {NoDate, 5}, err : BOOLEAN]

ApPages == {<<r1, r2>> : r1 \in ApRows, r2 \in ApRows}

\* ApprovalScraper.scrape, the loop over the detail pages.
ApPage ==
    \E rows \in ApPages, c \in BOOLEAN :
        /\ ApprovalProcessDetailPage(rows, <<HostSamr, 9>>, c)
        /\ Bounded(store', MaxId)
        /\ run' = [pc |-> "page", rows |-> rows, commitOk |-> c]
        /\ UNCHANGED <<now, pager>>

\* The listing entries of the SAMR source seen between two tables.
ApSamrIn == Inputs(Titles, {1}, Details({"A"}, {<<1, 2>>}, {NoAtt}), {"ok"}, {TRUE})

ApNext ==
    \/ ApPage
    \/ RcSamr(ApSamrIn, MaxId)

SpecApproval == RcInit /\ [][ApNext]_vars

----------------------------------------------------------------------------
(* Specification SpecMaintain: the approval scrape and the maintenance pass  *)
(* on one store.                                                             *)

MtNext ==
    \/ ApPage
    \/ RcDedup

SpecMaintain == RcInit /\ [][MtNext]_vars

----------------------------------------------------------------------------
(* Specification SpecAttach: the reconcilers of two sources on detail pages  *)
(* with and without attachment, the download succeeding or failing.  run     *)
(* holds what the detail page of the entry reconciled last yielded and how   *)
(* its attachment step went.                                                 *)

\* failed: a request was made and the fetcher handed back its failure value;
\* acquired: the fetcher handed back a path.
Seen(src, d, got) ==
    [pc |-> "case", src |-> src, d |-> d,
     failed |-> (got.net /\ got.ret = NoPath), acquired |-> (got.ret # NoPath)]

AtIn == Inputs(Titles, {1}, Details({NULL}, {<<1, 2>>}, {NoAtt, "a1.pdf"}), DlOutcomes, BOOLEAN)

AtBeijing ==
    \E i \in AtIn :
        /\ BeijingProcessCase(i.title, <<HostBeijing, i.n>>, i.d, i.dl, i.c)
        /\ Bounded(store', MaxId)
        /\ run' = Seen("beijing", i.d, BeijingAttachment(i.title, i.d.att, i.dl, files))
        /\ UNCHANGED <<now, pager>>

AtChongqing ==
    \E i \in AtIn :
        /\ ChongqingProcessCase(i.title, <<HostChongqing, i.n>>, i.d, i.dl, i.c)
        /\ Bounded(store', MaxId)
        /\ run' = Seen("chongqing", i.d, ChongqingAttachment(i.title, i.d.att, i.dl, files))
        /\ UNCHANGED <<now, pager>>

AtNext ==
    \/ AtBeijing
    \/ AtChongqing

SpecAttach == RcInit /\ [][AtNext]_vars

----------------------------------------------------------------------------
(* Specification SpecShared: the cases of a site whose detail pages link     *)
(* different documents of the same file name are reconciled.                 *)

AttachmentOf(title) == IF title = "A" THEN "d1/a1.pdf" ELSE "d2/a1.pdf"

ShIn ==
    {i \in Inputs(Titles, {1}, Details({NULL}, {<<1, 2>>}, DirAtts), DlOutcomes, BOOLEAN) :
        i.d.ok => i.d.att = AttachmentOf(i.title)}

ShShaanxi == RcShaanxi(ShIn, MaxId)

ShShanghai == RcShanghai(ShIn, MaxId)

ShNext ==
    \/ ShShaanxi
    \/ ShShanghai

SpecShared == RcInit /\ [][ShNext]_vars

----------------------------------------------------------------------------
(* Specification SpecFallback: two reconcilers on entries whose detail page  *)
(* carries a title of its own, equal to the listing title or not.  run holds *)
(* the entry reconciled last.                                                *)

SeenEntry(src, i) == [pc |-> "case", src |-> src, title |-> i.title, d |-> i.d]

FbIn == Inputs(Titles, {1}, Details({NULL, "A", "B"}, {<<1, 2>>}, {NoAtt}), {"ok"}, BOOLEAN)

FbShaanxi ==
    \E i \in FbIn :
        /\ ShaanxiProcessCase(i.title, <<HostShaanxi, i.n>>, i.d, i.dl, i.c)
        /\ Bounded(store', MaxId)
        /\ run' = SeenEntry("shaanxi", i)
        /\ UNCHANGED <<now, pager>>

FbChongqing ==
    \E i \in FbIn :
        /\ ChongqingProcessCase(i.title, <<HostChongqing, i.n>>, i.d, i.dl, i.c)
        /\ Bounded(store', MaxId)
        /\ run' = SeenEntry("chongqing", i)
        /\ UNCHANGED <<now, pager>>

FbNext ==
    \/ FbShaanxi
    \/ FbChongqing

SpecFallback == RcInit /\ [][FbNext]_vars

----------------------------------------------------------------------------
(* Specification SpecFill: three reconcilers on sightings of one case whose  *)
(* detail page carries dates and an attachment or not.                       *)

FiDates == {<<NoDate, NoDate>>, <<1, 2>>}

FiIn == Inputs({"A"}, {1}, Details({NULL}, FiDates, {NoAtt, "a1.pdf"}), {"ok", "fail_pre"},
              BOOLEAN)

FiSamrIn == Inputs({"A"}, {1}, Details({"A"}, FiDates, {NoAtt, "a1.pdf"}), {"ok", "fail_pre"},
                   BOOLEAN)

FiBeijing ==
    \E i \in FiIn :
        /\ BeijingProcessCase(i.title, <<HostBeijing, i.n>>, i.d, i.dl, i.c)
        /\ Bounded(store', MaxId)
        /\ run' = Seen("beijing", i.d, BeijingAttachment(i.title, i.d.att, i.dl, files))
        /\ UNCHANGED <<now, pager>>

FiShanghai ==
    \E i \in FiIn :
        /\ ShanghaiProcessCase(i.title, <<HostShanghai, i.n>>, i.d, i.dl, i.c)
        /\ Bounded(store', MaxId)
        /\ run' = Seen("shanghai", i.d,
                       ShanghaiAttachment(FirstByName(store, i.title), i.d.att, i.dl, files))
        /\ UNCHANGED <<now, pager>>

FiSamr ==
    \E i \in FiSamrIn :
        /\ SamrProcessCase(i.title, <<HostSamr, i.n>>, i.d, i.dl, i.c)
        /\ Bounded(store', MaxId)
        /\ run' = Seen("samr", i.d,
                       SamrAttachment(FirstByName(store, i.d.title), i.d.title, i.d.att,
                                      i.dl, files))
        /\ UNCHANGED <<now, pager>>

FiNext ==
    \/ FiBeijing
    \/ FiShanghai
    \/ FiSamr

SpecFill == RcInit /\ [][FiNext]_vars

----------------------------------------------------------------------------
(* Specification SpecTouch: two reconcilers on one store while the clock     *)
(* advances between the sightings.                                           *)

MaxClock == 3

\* Time passes between two sightings (datetime.now() grows).
Tick ==
    /\ now < MaxClock
    /\ now' = now + 1
    /\ UNCHANGED <<store, files, last, run, pager>>

TcIn == Inputs(Titles, {1}, Details({NULL}, {<<1, 2>>}, {NoAtt}), {"ok"}, BOOLEAN)

TcNext ==
    \/ RcShaanxi(TcIn, MaxId)
    \/ RcBeijing(TcIn, MaxId)
    \/ Tick

SpecTouch == RcInit /\ [][TcNext]_vars

----------------------------------------------------------------------------
(* Specification SpecFetch: the attachment fetchers called in any order on   *)
(* one attachment directory.  run holds the last call: its arguments, what   *)
(* it returned (ret), the path it worked on, whether it made a network       *)
(* request and how that went, and the number of requests made so far.        *)

MaxRequests == 3

\* One attachment URL with a usable file name, one without.
FetchAtts == {"a1.pdf", "x"}

FetchIdle == [pc |-> "idle", requests |-> 0]

FetchCall(src, name, att, dl, got, ret) ==
    /\ got.net => run.requests < MaxRequests
    /\ files' = got.files
    /\ run' = [pc |-> "fetched", src |-> src, name |-> name, att |-> att, ret |-> ret,
               target |-> got.target, net |-> got.net,
               outcome |-> IF got.net THEN dl ELSE "none",
               requests |-> run.requests + (IF got.net THEN 1 ELSE 0)]
    /\ UNCHANGED <<store, now, last, pager>>

FetchShaanxi ==
    \E name \in Titles, att \in FetchAtts, dl \in DlOutcomes :
        LET got == ShaanxiDownload(name, att, dl, files) IN
        FetchCall("shaanxi", name, att, dl, got, got.path)

FetchChongqing ==
    \E name \in Titles, att \in FetchAtts, dl \in DlOutcomes :
        LET got == ChongqingDownload(name, att, dl, files) IN
        FetchCall("chongqing", name, att, dl, got, got.path)

FetchSamr ==
    \E name \in Titles, att \in FetchAtts, dl \in DlOutcomes :
        LET got == SamrDownload(name, att, dl, files) IN
        FetchCall("samr", name, att, dl, got, got.path)

FetchBeijing ==
    \E name \in Titles, att \in FetchAtts, dl \in DlOutcomes :
        LET got == BeijingAttachment(name, att, dl, files) IN
        FetchCall("beijing", name, att, dl, got, got.ret)

FetchInit == InitStore /\ run = FetchIdle /\ pager = PagerIdle

FetchNext ==
    \/ FetchShaanxi
    \/ FetchChongqing
    \/ FetchSamr
    \/ FetchBeijing

SpecFetch == FetchInit /\ [][FetchNext]_vars

----------------------------------------------------------------------------
(* The listing traversal of the static-URL sources (parse_list_page and run) *)

MaxPages == 2       \* listing pages a site may have

\* A listing entry: its title on the listing page and the detail page behind
\* its link (dt is the title printed on the detail page).
Entry(t, dt) == [title |-> t, d |-> Detail(dt, 1, 2, NoAtt)]

RunEntries == {Entry("A", NULL), Entry("A", "B"), Entry("B", "C"), Entry("B", NULL)}

\* A site: page p lists the one entry site[p]; page Len(site)+1 does not exist.
Sites == UNION {[1..k -> RunEntries] : k \in 1..MaxPages}

\* parse_list_page returned None.
ListNone == [ok |-> FALSE, cases |-> <<>>, current |-> 0, next |-> 0]

\* Faulty variant of ShaanxiScraper.parse_list_page: a missing page still
\* announces a next page.
ShaanxiParseListPageOn(site, pageNo, net) ==
    IF net = "error" THEN ListNone
    ELSE IF pageNo > Len(site)
         THEN [ok |-> TRUE, cases |-> <<>>, current |-> pageNo, next |-> pageNo + 1]
         ELSE [ok |-> TRUE, cases |-> <<site[pageNo]>>, current |-> pageNo,
               next |-> pageNo + 1]

\* ShaanxiScraper.parse_list_page(page_no): a 404 is an empty page without next
\* page, any other failure is None; next_page_no is always page_no + 1, also
\* for a response without list items (net = "empty").
ShaanxiParseListPage(site, pageNo, net) ==
    IF net = "error" THEN ListNone
    ELSE IF net = "empty"
         THEN [ok |-> TRUE, cases |-> <<>>, current |-> pageNo, next |-> pageNo + 1]
    ELSE IF pageNo > Len(site)
         THEN [ok |-> TRUE, cases |-> <<>>, current |-> pageNo, next |-> 0]
         ELSE [ok |-> TRUE, cases |-> <<site[pageNo]>>, current |-> pageNo,
               next |-> pageNo + 1]

\* BeijingScraper.parse_list_page(url), url being index_<idx>.html (idx 0: the
\* base URL).  Any failure and a page without cases are None; current_page is
\* idx + 2 past the first page; next is the idx of the next URL.
BeijingParseListPage(site, idx, net) ==
    IF net \in {"error", "empty"} \/ idx + 1 > Len(site) THEN ListNone
    ELSE [ok |-> TRUE, cases |-> <<site[idx + 1]>>,
          current |-> IF idx = 0 THEN 1 ELSE idx + 2, next |-> idx + 1]

\* Where run() starts: page number 1 (Shaanxi), the base URL (Beijing).
StartPos(src) == IF src = "shaanxi" THEN 1 ELSE 0

NetOutcomes == {"ok", "error"}

RunStart(src, site, maxPage) ==
    [pc |-> "fetch", src |-> src, site |-> site, maxPage |-> maxPage, no |-> 1,
     pos |-> StartPos(src), next |-> 0, queue |-> <<>>, fetches |-> 0,
     listed |-> 0, attempts |-> 0, err |-> "none", clean |-> TRUE, snap |-> {}]

\* ShaanxiScraper.run, head of the loop: the page limit is tested before the
\* request; None and the empty page without next page end the traversal.
RunFetchShaanxiOn(nets) ==
    /\ run.pc = "fetch" /\ run.src = "shaanxi"
    /\ IF run.maxPage # 0 /\ run.pos > run.maxPage
       THEN run' = [run EXCEPT !.pc = "export"]
       ELSE \E net \in nets :
              LET r == ShaanxiParseListPage(run.site, run.pos, net) IN
              run' = [run EXCEPT
                        !.fetches = @ + 1,
                        !.attempts = 1,
                        !.err = IF net = "error" THEN "fetch" ELSE "none",
                        !.clean = @ /\ net = "ok",
                        !.queue = r.cases,
                        !.listed = IF r.cases # <<>> THEN @ + 1 ELSE @,
                        !.next = r.next,
                        !.pc = IF ~r.ok \/ (r.next = 0 /\ r.cases = <<>>)
                               THEN "export" ELSE "cases"]
    /\ UNCHANGED <<store, files, now, last, pager>>

RunFetchShaanxi == RunFetchShaanxiOn(NetOutcomes)

\* BeijingScraper.run, head of the loop: the page limit is tested after the
\* request, against the page number parse_list_page computed.
RunFetchBeijingOn(nets) ==
    /\ run.pc = "fetch" /\ run.src = "beijing"
    /\ \E net \in nets :
          LET r == BeijingParseListPage(run.site, run.pos, net) IN
          run' = [run EXCEPT
                    !.fetches = @ + 1,
                    !.attempts = 1,
                    !.err = IF net = "error" THEN "fetch" ELSE "none",
                    !.clean = @ /\ net = "ok",
                    !.queue = IF r.ok /\ ~(run.maxPage # 0 /\ r.current > run.maxPage)
                              THEN r.cases ELSE <<>>,
                    !.listed = IF r.ok /\ r.cases # <<>>
                                  /\ ~(run.maxPage # 0 /\ r.current > run.maxPage)
                               THEN @ + 1 ELSE @,
                    !.next = r.next,
                    !.pc = IF ~r.ok \/ (run.maxPage # 0 /\ r.current > run.maxPage)
                           THEN "export" ELSE "cases"]
    /\ UNCHANGED <<store, files, now, last, pager>>

RunFetchBeijing == RunFetchBeijingOn(NetOutcomes)

\* The loop over the cases of the page: process_case on the next entry.
RunProcessShaanxi ==
    /\ run.pc = "cases" /\ run.src = "shaanxi" /\ run.queue # <<>>
    /\ \E dOk \in BOOLEAN, c \in BOOLEAN :
          /\ ShaanxiProcessCase(Head(run.queue).title, <<HostShaanxi, run.pos>>,
                                IF dOk THEN Head(run.queue).d ELSE NoDetail, "ok", c)
          /\ run' = [run EXCEPT !.queue = Tail(@), !.clean = @ /\ dOk /\ c]
    /\ UNCHANGED <<now, pager>>

RunProcessBeijing ==
    /\ run.pc = "cases" /\ run.src = "beijing" /\ run.queue # <<>>
    /\ \E dOk \in BOOLEAN, c \in BOOLEAN :
          /\ BeijingProcessCase(Head(run.queue).title, <<HostBeijing, run.pos>>,
                                IF dOk THEN Head(run.queue).d ELSE NoDetail, "ok", c)
          /\ run' = [run EXCEPT !.queue = Tail(@), !.clean = @ /\ dOk /\ c]
    /\ UNCHANGED <<now, pager>>

\* End of the loop body: go to the next page, or leave the loop without one.
RunNextPage ==
    /\ run.pc = "cases" /\ run.queue = <<>>
    /\ run' = IF run.next # 0
              THEN [run EXCEPT !.pos = run.next, !.pc = "fetch"]
              ELSE [run EXCEPT !.pc = "export"]
    /\ UNCHANGED <<store, files, now, last, pager>>

\* export_data at the end of run(): the store is read, not written.  snap
\* remembers the store as the first run left it.
RunExport ==
    /\ run.pc = "export"
    /\ run' = [run EXCEPT !.pc = "done", !.snap = IF run.no = 1 THEN store ELSE @]
    /\ UNCHANGED <<store, files, now, last, pager>>

\* The same source is run a second time, later, against the same site.
RunAgain ==
    /\ run.pc = "done" /\ run.no = 1
    /\ run' = [run EXCEPT !.no = 2, !.pc = "fetch", !.pos = StartPos(run.src),
                          !.next = 0, !.fetches = 0, !.listed = 0, !.attempts = 0,
                          !.err = "none"]
    /\ now' = now + 1
    /\ UNCHANGED <<store, files, last, pager>>

----------------------------------------------------------------------------
(* Specification SpecRun: one static-URL source run twice against one site *)

RunInit ==
    /\ InitStore
    /\ run \in {RunStart(src, site, m) : src \in {"shaanxi", "beijing"},
                                         site \in Sites, m \in {0, 1}}
    /\ pager = PagerIdle

RunNext ==
    \/ RunFetchShaanxi
    \/ RunFetchBeijing
    \/ RunProcessShaanxi
    \/ RunProcessBeijing
    \/ RunNextPage
    \/ RunExport
    \/ RunAgain

SpecRun == RunInit /\ [][RunNext]_vars

----------------------------------------------------------------------------
(* Specification SpecLimit: one run of the Beijing source with a page limit  *)
(* of 1..MaxPages against one site.                                          *)

LimitInit ==
    /\ InitStore
    /\ run \in {RunStart("beijing", site, m) : site \in Sites, m \in 1..MaxPages}
    /\ pager = PagerIdle

LimitNext ==
    \/ RunFetchBeijing
    \/ RunProcessBeijing
    \/ RunNextPage
    \/ RunExport

SpecLimit == LimitInit /\ [][LimitNext]_vars

----------------------------------------------------------------------------
(* Specification SpecConcurrent: two runs of the Shaanxi source at the same  *)
(* time, each with a session of its own on the one database, each           *)
(* reconciling one listing entry.  process_case is taken statement by        *)
(* statement: the lookup by the listing title, the lookup by the title of    *)
(* the detail page, the test of the final title before an insert, and the    *)
(* commit.  run.proc[p] is the position of run p: its listing title, the     *)
(* title of its detail page, and the id of the record it found (0: none).    *)

Procs == {1, 2}

Proc(pc, title, detail, existing) ==
    [pc |-> pc, title |-> title, detail |-> detail, existing |-> existing]

FinalTitle(pr) == IF Truthy(pr.detail) THEN pr.detail ELSE pr.title

Moved(p, pr) == [run EXCEPT !.proc[p] = pr]

\* existing_case = query(Case).filter(Case.case_name == query_title).first()
CoLookup(p) ==
    LET pr == run.proc[p] IN
    /\ pr.pc = "lookup"
    /\ run' = Moved(p, [pr EXCEPT !.pc = "fallback",
                                  !.existing = FirstByName(store, pr.title).id])
    /\ UNCHANGED <<store, files, now, last, pager>>

\* The second lookup, by the title of the detail page, when the first found
\* nothing and the detail page has another title.
CoFallback(p) ==
    LET pr == run.proc[p]
        found == IF pr.existing = 0 /\ Truthy(pr.detail) /\ pr.detail # pr.title
                 THEN FirstByName(store, pr.detail).id ELSE pr.existing
    IN
    /\ pr.pc = "fallback"
    /\ run' = Moved(p, [pr EXCEPT !.pc = IF found # 0 THEN "update" ELSE "recheck",
                                  !.existing = found])
    /\ UNCHANGED <<store, files, now, last, pager>>

\* Insert path: the final title is looked up when it is not the listing title.
CoRecheck(p) ==
    LET pr == run.proc[p]
        final == FinalTitle(pr)
    IN
    /\ pr.pc = "recheck"
    /\ run' = Moved(p, [pr EXCEPT !.pc = IF final # pr.title /\ FirstByName(store, final) # NoRec
                                         THEN "done" ELSE "insert"])
    /\ UNCHANGED <<store, files, now, last, pager>>

\* session.commit() of the Update path (the row of the record found is
\* written) or of the Insert path (a row is added); a commit that raises is
\* rolled back.
CoCommit(p) ==
    LET pr == run.proc[p]
        final == FinalTitle(pr)
        d == Detail(pr.detail, 1, 2, NoAtt)
        url == <<HostShaanxi, p>>
        row == CHOOSE r \in store : r.id = pr.existing
        new == Case(NextId(store), final, d.start, d.end, url, RegionShaanxi, NoPath, now)
        pending == IF pr.pc = "update"
                   THEN Replace(store, row,
                                ShaanxiUpdated(row, final, url, d, [path |-> NoPath]))
                   ELSE store \cup {new}
    IN
    /\ pr.pc \in {"update", "insert"}
    /\ \E commitOk \in BOOLEAN :
          /\ store' = IF commitOk THEN pending ELSE RolledBack(store, pending)
          /\ last' = IF ~commitOk THEN Op("rollback", "shaanxi", 0)
                     ELSE IF pr.pc = "update" THEN Op("update", "shaanxi", row.id)
                     ELSE Op("insert", "shaanxi", new.id)
          /\ run' = Moved(p, [pr EXCEPT !.pc = IF commitOk THEN "committed" ELSE "done"])
    /\ UNCHANGED <<files, now, pager>>

ConcurrentInit ==
    /\ InitStore
    /\ run \in {[pc |-> "concurrent",
                  proc |-> [p \in Procs |->
                              Proc("lookup", IF p = 1 THEN t1 ELSE t2,
                                   IF p = 1 THEN d1 ELSE d2, 0)]] :
                    t1 \in Titles, t2 \in Titles,
                    d1 \in {NULL, "A", "B"}, d2 \in {NULL, "A", "B"}}
    /\ pager = PagerIdle

ConcurrentNext ==
    \/ \E p \in Procs : CoLookup(p)
    \/ \E p \in Procs : CoFallback(p)
    \/ \E p \in Procs : CoRecheck(p)
    \/ \E p \in Procs : CoCommit(p)

SpecConcurrent == ConcurrentInit /\ [][ConcurrentNext]_vars

----------------------------------------------------------------------------
(* Specification SpecTraverse: one run without page limit against a site     *)
(* whose server may also answer a request with a page that lists nothing.    *)
(* A run makes at most MaxFetches requests here.                             *)

MaxFetches == 4

TraverseOutcomes == {"ok", "error", "empty"}

TrFetchShaanxi ==
    /\ run.fetches < MaxFetches
    /\ RunFetchShaanxiOn(TraverseOutcomes)

TrFetchBeijing ==
    /\ run.fetches < MaxFetches
    /\ RunFetchBeijingOn(TraverseOutcomes)

TraverseInit ==
    /\ InitStore
    /\ run \in {RunStart(src, site, 0) : src \in {"shaanxi", "beijing"}, site \in Sites}
    /\ pager = PagerIdle

TraverseNext ==
    \/ TrFetchShaanxi
    \/ TrFetchBeijing
    \/ RunProcessShaanxi
    \/ RunProcessBeijing
    \/ RunNextPage
    \/ RunExport

SpecTraverse == TraverseInit /\ [][TraverseNext]_vars

----------------------------------------------------------------------------
(* The clickable-pager adapter: CaseScraper.parse_list_page_playwright and   *)
(* CaseScraper._turn_to_next_page, driven by the page loop of main().        *)

\* A paged listing as the browser shows it: titles[p] is the first title of
\* page p.
PgMaxPages == 3

PagerSites == UNION {[1..k -> {"T1", "T2"}] : k \in 1..PgMaxPages}

\* cur is self.current_page (0: None), shown the page the browser displays
\* (0: nothing loaded), target the page_no of the request in progress.
\* total_processed is main()'s count of the cases handed to process_case (one
\* listed case per page), exported whether main() reached export_data.
PagerStart(titles) ==
    [pc |-> "idle", titles |-> titles, target |-> 0, cur |-> 0, shown |-> 0,
     retry |-> 0, turns |-> 0, clicks |-> 0, stalled |-> FALSE, result |-> "none",
     total_processed |-> 0, exported |-> FALSE]

\* Faulty variant of the caller's reaction to a failed page turn: the request
\* goes round the retry loop again.
TurnFailedRetried(p) == [p EXCEPT !.retry = @ + 1, !.pc = "loop"]

\* parse_list_page_playwright after _turn_to_next_page returned False:
\* `return None`.
TurnFailed(p) == [p EXCEPT !.pc = "idle", !.result = "error"]

\* main(): the loop over the target pages calls parse_list_page_playwright for
\* the next page, whatever the previous request returned.
PgRequest ==
    /\ pager.pc = "idle"
    /\ pager.target < Len(pager.titles)
    /\ pager' = [pager EXCEPT !.target = @ + 1, !.pc = "loop", !.retry = 0,
                              !.turns = 0, !.clicks = 0, !.stalled = FALSE,
                              !.result = "pending"]
    /\ UNCHANGED <<store, files, now, last, run>>

\* Head of the retry loop: a first visit loads the first page (a failed load
\* counts as an attempt) and then has page_no - 1 pages to turn; a request for
\* the page after the current one has one page to turn.
PgLoopHead ==
    /\ pager.pc = "loop"
    /\ pager.retry < MaxRetries
    /\ IF pager.cur = 0
       THEN \E net \in NetOutcomes :
              pager' = IF net = "error"
                       THEN [pager EXCEPT !.retry = @ + 1]
                       ELSE [pager EXCEPT !.shown = 1, !.cur = 1,
                                          !.turns = pager.target - 1,
                                          !.pc = IF pager.target > 1 THEN "turn"
                                                 ELSE "select"]
       ELSE pager' = IF pager.target > pager.cur
                     THEN [pager EXCEPT !.turns = 1, !.pc = "turn"]
                     ELSE [pager EXCEPT !.pc = "select"]
    /\ UNCHANGED <<store, files, now, last, run>>

\* The retry loop ran out: `return None`.
PgGiveUp ==
    /\ pager.pc = "loop"
    /\ pager.retry >= MaxRetries
    /\ pager' = [pager EXCEPT !.pc = "idle", !.result = "error"]
    /\ UNCHANGED <<store, files, now, last, run>>

\* _turn_to_next_page: without a reference title it fails at once; a selector
\* error resets current_page; otherwise it clicks, and the turn has failed
\* (current_page reset) when the first title is the one seen before the click.
PgTurn ==
    /\ pager.pc = "turn"
    /\ \E o \in {"advance", "stuck", "noelement", "error"} :
          LET shown2 == IF o = "advance" /\ pager.shown < Len(pager.titles)
                        THEN pager.shown + 1 ELSE pager.shown
              stall == pager.titles[shown2] = pager.titles[pager.shown]
          IN
          pager' =
            CASE o = "noelement" -> [pager EXCEPT !.pc = "turn_failed"]
              [] o = "error" -> [pager EXCEPT !.cur = 0, !.pc = "turn_failed"]
              [] OTHER ->
                   IF stall
                   THEN [pager EXCEPT !.clicks = @ + 1, !.shown = shown2, !.cur = 0,
                                      !.stalled = TRUE, !.pc = "turn_failed"]
                   ELSE [pager EXCEPT !.clicks = @ + 1, !.shown = shown2,
                                      !.cur = @ + 1, !.turns = @ - 1,
                                      !.pc = IF pager.turns > 1 THEN "turn" ELSE "select"]
    /\ UNCHANGED <<store, files, now, last, run>>

\* The caller of a failed page turn.
PgTurnFailed ==
    /\ pager.pc = "turn_failed"
    /\ pager' = TurnFailed(pager)
    /\ UNCHANGED <<store, files, now, last, run>>

\* Waiting for the list and collecting its links: the links are returned; a
\* selector error or an empty list counts as an attempt.
PgSelect ==
    /\ pager.pc = "select"
    /\ \E net \in NetOutcomes :
          pager' = IF net = "error"
                   THEN [pager EXCEPT !.retry = @ + 1, !.pc = "loop"]
                   ELSE [pager EXCEPT !.pc = "idle", !.result = "ok",
                                      !.total_processed = @ + 1]
    /\ UNCHANGED <<store, files, now, last, run>>

\* main() after the loop over the target pages: the summary divides
\* total_success by total_processed; the ZeroDivisionError of a run that
\* processed no case is caught by the outermost handler, which is past the
\* export.
SummaryThenExport(p) ==
    [p EXCEPT !.pc = "done", !.exported = (p.total_processed # 0)]

PgSummary ==
    /\ pager.pc = "idle"
    /\ pager.target = Len(pager.titles)
    /\ pager' = SummaryThenExport(pager)
    /\ UNCHANGED <<store, files, now, last, run>>

----------------------------------------------------------------------------
(* Specification SpecPager: main() asks the pager for the pages 1..K of a    *)
(* site of K pages.                                                          *)

PgInit ==
    /\ InitStore
    /\ run = RunIdle
    /\ pager \in {PagerStart(ts) : ts \in PagerSites}

PgNext ==
    \/ PgRequest
    \/ PgLoopHead
    \/ PgGiveUp
    \/ PgTurn
    \/ PgTurnFailed
    \/ PgSelect
    \/ PgSummary

SpecPager == PgInit /\ [][PgNext]_vars

----------------------------------------------------------------------------
(* Properties of the reconcilers and of the maintenance pass *)

\* The row of s with the id of r, as a set (empty when the row is gone).
Same(s, r) == {q \in s : q.id = r.id}

\* The region a source's reconciler writes.
SrcRegion(src) ==
    CASE src = "shaanxi" -> RegionShaanxi
      [] src = "beijing" -> RegionBeijing
      [] src = "shanghai" -> RegionShanghai
      [] src = "chongqing" -> RegionChongqing
      [] OTHER -> GetRegionName(GetPageType(<<HostSamr, 1>>))

\* C1 (monotonic fill): in every step of every reconciler, a row whose
\* notice_start_date (likewise notice_end_date) is non-null does not end the
\* step with a different non-null date.
MonotonicFill ==
    [][\A r \in store : \A q \in Same(store', r) :
          /\ (r.notice_start_date # NoDate /\ q.notice_start_date # NoDate
                 => q.notice_start_date = r.notice_start_date)
          /\ (r.notice_end_date # NoDate /\ q.notice_end_date # NoDate
                 => q.notice_end_date = r.notice_end_date)]_vars

\* C3 (region correction): after a reconciliation committed on the Update
\* path, the region of the row it updated is the region of the source that
\* ran, whatever region the row held before.
RegionCorrected ==
    last.op = "update" =>
        \A r \in store : r.id = last.id => r.region = SrcRegion(last.src)

\* C4 (no field regression): no step of a reconciler turns a non-null
\* notice_start_date, notice_end_date or attachment_path of a row into null.
NoFieldRegression ==
    [][\A r \in store : \A q \in Same(store', r) :
          /\ (r.notice_start_date # NoDate => q.notice_start_date # NoDate)
          /\ (r.notice_end_date # NoDate => q.notice_end_date # NoDate)
          /\ (r.attachment_path # NoPath => q.attachment_path # NoPath)]_vars

\* C5 (insert guard): a row that a reconciler adds to the store never carries
\* the case_name of a row that was in the store before the step.
InsertGuard ==
    [][\A q \in store' : q.id \notin Ids(store) =>
          \A r \in store : r.case_name # q.case_name]_vars

\* A reconciler has inserted a row next to a row that was already stored.
InsertBesideExisting ==
    /\ last.op = "insert"
    /\ \E r \in store : r.id # last.id

\* C6 (no deletion by the pipeline): every step other than a maintenance pass
\* keeps every id of the store.
NoDeletionByPipeline ==
    [][last'.op # "dedup" => Ids(store) \subseteq Ids(store')]_vars

\* The approval scrape has committed on a store of two rows or more.
ApprovalOnSeveralRows ==
    /\ last.op = "approval"
    /\ Cardinality(store) >= 2

\* C7 (dedup maintenance): a maintenance pass leaves, of the N rows that share
\* a source_url, exactly the row with the highest id, unchanged, and removes the
\* other N-1.
DedupKeepsHighest ==
    [][last'.op = "dedup" =>
          \A u \in {r.source_url : r \in store} :
              LET before == SameUrl(store, u)
                  after == SameUrl(store', u)
              IN /\ after = {r \in before : r.id = MaxOf(Ids(before))}
                 /\ Cardinality(after) = 1
                 /\ Cardinality(before \ store') = Cardinality(before) - 1]_vars

\* A maintenance pass has removed rows and kept a row of another source_url.
DedupCollapsedAGroup ==
    /\ last.op = "dedup"
    /\ last.n >= 1
    /\ Cardinality(store) >= 2

----------------------------------------------------------------------------
(* Properties of the listing traversal *)

\* A row without its last-touched timestamp.
Untimed(r) == [r EXCEPT !.created_at = NoTime]

\* Both runs are over and nothing failed in either: every listing and detail
\* page was served, every commit went through.
BothRunsClean == run.pc = "done" /\ run.no = 2 /\ run.clean

\* C2 (idempotent re-run): after a second run against the unchanged site the
\* store holds as many rows as after the first run, and every row has the same
\* value in every field; the last-touched timestamp, which the reconciler
\* refreshes on every sighting, is left out of the comparison.
IdempotentRerun ==
    BothRunsClean =>
        /\ Cardinality(store) = Cardinality(run.snap)
        /\ {Untimed(r) : r \in store} = {Untimed(r) : r \in run.snap}

\* C8 as stated (pagination termination): a run without page limit over a
\* site of K pages issues at most K listing-page requests.
FetchesWithinPages ==
    run.maxPage = 0 => run.fetches <= Len(run.site)

\* C8 as the code has it: a run without page limit over a site of K pages
\* issues at most K + 1 listing-page requests, the last one being the request
\* for the missing page K + 1 that ends the traversal.
FetchesWithinPagesAndProbe ==
    run.maxPage = 0 => run.fetches <= Len(run.site) + 1

\* A run without page limit has gone through every page and has ended on the
\* request for the missing page.
TraversalEndedOnProbe ==
    /\ run.pc = "done"
    /\ run.maxPage = 0
    /\ run.err = "none"
    /\ run.fetches = Len(run.site) + 1

\* C10 (retry budget): when a listing request fails with a network error and
\* the adapter gives the page up, it has made MaxRetries attempts on the page.
RetryBudgetSpent ==
    run.err = "fetch" => run.attempts = MaxRetries

\* C11 (page limit is a hard stop): a run with page limit M requests at most
\* M listing pages and hands the cases of at most M pages to reconciliation.
PageLimitIsHardStop ==
    run.maxPage # 0 =>
        /\ run.fetches <= run.maxPage
        /\ run.listed <= run.maxPage

----------------------------------------------------------------------------
(* Properties of the clickable pager *)

\* C9 (stall detection): once a click on the next control left the first
\* title unchanged, the next step of the request is its return with an error,
\* and no further click is made in the request.
StallReported ==
    [][pager.stalled /\ pager.pc # "idle" =>
          /\ pager'.pc = "idle"
          /\ pager'.result = "error"
          /\ pager'.clicks = pager.clicks]_vars

\* A request has returned an error after a click that left the first title
\* unchanged.
StallReturnedError ==
    /\ pager.stalled
    /\ pager.pc = "idle"
    /\ pager.result = "error"
    /\ pager.clicks >= 1

\* C12 (export always runs): a run of main() that is over has reached the
\* export, also when every listing request failed and no case was processed.
ExportReached ==
    pager.pc = "done" => pager.exported

\* C13 (failure isolation), for the rows of an approval table: when the
\* table's commit is not refused, every row that has an accepted date and no
\* failure of its own is reconciled (a record of its name holds its decision
\* date), and no record stored before is lost.
RowFailureIsContained ==
    [][last'.src = "approval" /\ run'.pc = "page" /\ run'.commitOk =>
          /\ \A k \in 1..Len(run'.rows) :
                ~run'.rows[k].err /\ run'.rows[k].date # NoDate =>
                    \E r \in store' : /\ r.case_name = run'.rows[k].name
                                      /\ r.decided = run'.rows[k].date
          /\ Ids(store) \subseteq Ids(store')]_vars

\* The reconciler reported the case as new (process_case returned True, or
\* the saved case data): only an insert that committed does.
ReportedNew(l) == l.op = "insert"

\* C14 (commit failure is rolled back): after a reconciliation whose commit
\* failed the store is exactly as it was before the call, and the case is not
\* reported as new.
CommitFailureRolledBack ==
    [][last'.op = "rollback" => store' = store /\ ~ReportedNew(last')]_vars

\* A commit has failed on a store that holds rows.
RollbackOnStoredRows == last.op = "rollback" /\ store # {}

----------------------------------------------------------------------------
(* Properties of the attachment fetchers *)

PartialDownloadRemoved ==
    run.pc = "fetched" /\ run.net /\ run.outcome = "fail_mid" =>
        /\ run.target \notin files
        /\ run.ret = NoPath

----------------------------------------------------------------------------
(* Properties of the attachment step of the reconcilers *)

\* The record the last reconciliation wrote.
Touched == {r \in store : r.id = last.id}

\* C17 (attachment failure is treated as absence): when the fetch of the
\* attachment failed and the case is new, the case is inserted with a null
\* attachment_path.
FailedAttachmentIsNull ==
    last.op = "insert" /\ run.pc = "case" /\ run.failed =>
        \A r \in Touched : r.attachment_path = NoPath

\* C18 (stored path is the file's path): every attachment_path that is not
\* null names a file of the attachment directory.
StoredPathIsFile ==
    \A r \in store : r.attachment_path # NoPath => r.attachment_path \in files

\* C19 (lookup fallback): when no record has the listing title and a record
\* has the title of the detail page, a reconciliation that commits takes the
\* Update path on that record and inserts nothing.
LookupFallsBackToDetailTitle ==
    [][/\ run'.pc = "case" /\ run'.d.ok /\ Truthy(run'.d.title)
       /\ FirstByName(store, run'.title) = NoRec
       /\ FirstByName(store, run'.d.title) # NoRec
       /\ last'.op # "rollback"
       => /\ last'.op \in {"update", "nochange"}
          /\ last'.id = FirstByName(store, run'.d.title).id
          /\ Ids(store') = Ids(store)]_vars

\* C20 (fill on later sighting): when a sighting of a stored case commits an
\* update, every date of the record that was null and that the detail page
\* yields holds the extracted value afterwards, and a null attachment_path
\* holds the path of the attachment the sighting acquired.
FillOnLaterSighting ==
    [][run'.pc = "case" /\ last'.op = "update" =>
          \A r \in store : \A q \in store' :
              r.id = last'.id /\ q.id = r.id =>
                  /\ r.notice_start_date = NoDate /\ run'.d.start # NoDate
                        => q.notice_start_date = run'.d.start
                  /\ r.notice_end_date = NoDate /\ run'.d.end # NoDate
                        => q.notice_end_date = run'.d.end
                  /\ r.attachment_path = NoPath /\ run'.acquired
                        => q.attachment_path # NoPath /\ q.attachment_path \in files']_vars

----------------------------------------------------------------------------
(* Properties of the last-touched timestamp *)

\* C21 (last-touched refresh): after an Update-path reconciliation that
\* committed, the created_at of the record it touched is the time of the
\* reconciliation.  A step that leaves the clock alone is a reconciliation.
UpdateRefreshesTimestamp ==
    [][now' = now /\ last'.op = "update" =>
          \A q \in store' : q.id = last'.id => q.created_at = now]_vars

----------------------------------------------------------------------------
(* Date texts.  A number is the sequence of its decimal digits as written;   *)
(* a date text is [y, m, d, style]: style "cjk" is Y年M月D日, "dot" Y.M.D,    *)
(* "dash" Y-M-D; y = <<>> stands for a date written without its year.  A     *)
(* range text is [label, spaced, colon, s, sep, e]: label "gsq" is 公示期,     *)
(* "gsrq" 公示日期, "none" no label; spaced tells whether blanks stand between *)
(* the characters of the label; colon is "full" (：), "ascii" (:) or "none";  *)
(* sep is "zhi" (至) or "dash" (-).  A normalized date is [y, m, d] with m     *)
(* and d of two digits, read YYYY-MM-DD.                                     *)

NoYear == <<>>

\* None as a date.
NoIso == [y |-> <<>>, m |-> <<>>, d |-> <<>>]

NoRange == [start |-> NoIso, end |-> NoIso]

DateText(y, m, d, style) == [y |-> y, m |-> m, d |-> d, style |-> style]

RangeText(label, spaced, colon, s, sep, e) ==
    [label |-> label, spaced |-> spaced, colon |-> colon, s |-> s, sep |-> sep, e |-> e]

\* The element that would hold the text is not in the page.
NoText ==
    RangeText("absent", FALSE, "none", DateText(<<>>, <<>>, <<>>, "none"), "none",
              DateText(<<>>, <<>>, <<>>, "none"))

\* int(): the value of a digit sequence of one or two digits.
Val(ds) == IF Len(ds) = 1 THEN ds[1] ELSE 10 * ds[1] + ds[2]

\* f"{int(x):02d}".
IntPad2(ds) == <<Val(ds) \div 10, Val(ds) % 10>>

\* f"{x:0>2}": the string padded on the left.
StrPad2(ds) == IF Len(ds) < 2 THEN <<0>> \o ds ELSE ds

\* datetime.strptime(s, '%Y-%m-%d') / datetime(y, m, d) accept the date
\* (every month is taken to have 31 days).
ValidDate(y, m, d) ==
    /\ Len(y) = 4
    /\ Val(m) \in 1..12
    /\ Val(d) \in 1..31

\* strptime(...).strftime('%Y-%m-%d') of an accepted date.
Strftime(y, m, d) == [y |-> y, m |-> IntPad2(m), d |-> IntPad2(d)]

----------------------------------------------------------------------------
(* ApprovalScraper.convert_chinese_date and the date patterns of the Shaanxi *)
(* scraper and parser.                                                       *)

\* convert_chinese_date(date_str): (\d{4})年(\d{1,2})月(\d{1,2})日 at the
\* start of the string, the groups padded as strings.
ConvertChineseDate(t) ==
    IF t.style = "cjk" /\ Len(t.y) = 4
    THEN [y |-> t.y, m |-> StrPad2(t.m), d |-> StrPad2(t.d)]
    ELSE NoIso

\* A pattern that takes the label only as 公示期, without blanks in it.
ShaanxiParserDateRangeUnspaced(t) ==
    IF /\ t.label = "gsq" /\ ~t.spaced /\ t.colon = "full"
       /\ t.s.style = "cjk" /\ t.e.style = "cjk"
       /\ t.sep = "zhi"
       /\ Len(t.s.y) = 4 /\ Len(t.e.y) = 4
    THEN [start |-> [y |-> t.s.y, m |-> IntPad2(t.s.m), d |-> IntPad2(t.s.d)],
          end |-> [y |-> t.e.y, m |-> IntPad2(t.e.m), d |-> IntPad2(t.e.d)]]
    ELSE NoRange

\* ShaanxiParser.get_date_range on the text of div.news-content (NoText: no
\* such div): 公\s*示\s*期：Y年M月D日至Y年M月D日.
ShaanxiParserDateRange(t) ==
    IF /\ t.label = "gsq" /\ t.colon = "full"
       /\ t.s.style = "cjk" /\ t.e.style = "cjk"
       /\ t.sep = "zhi"
       /\ Len(t.s.y) = 4 /\ Len(t.e.y) = 4
    THEN [start |-> [y |-> t.s.y, m |-> IntPad2(t.s.m), d |-> IntPad2(t.s.d)],
          end |-> [y |-> t.e.y, m |-> IntPad2(t.e.m), d |-> IntPad2(t.e.d)]]
    ELSE NoRange

\* date_pattern_meta / date_pattern_content of ShaanxiScraper.parse_detail_page:
\* 公\s*示\s*期\s*[:：]?\s*Y[年-]M[月-]D日?\s*[至到-]\s*Y[年-]M[月-]D日?
ShaanxiPatternMatches(t) ==
    /\ t.label = "gsq"
    /\ t.s.style \in {"cjk", "dash"} /\ t.e.style \in {"cjk", "dash"}
    /\ t.sep \in {"zhi", "dash"}
    /\ Len(t.s.y) = 4 /\ Len(t.e.y) = 4

\* The assignments after a match: start_date = datetime(sy, sm, sd), then
\* end_date = datetime(ey, em, ed); a ValueError leaves what was not yet
\* assigned as it was.
ShaanxiPatternAssign(t, prev) ==
    IF ~ShaanxiPatternMatches(t) THEN prev
    ELSE IF ~ValidDate(t.s.y, t.s.m, t.s.d) THEN prev
    ELSE IF ~ValidDate(t.e.y, t.e.m, t.e.d)
    THEN [start |-> Strftime(t.s.y, t.s.m, t.s.d), end |-> prev.end]
    ELSE [start |-> Strftime(t.s.y, t.s.m, t.s.d), end |-> Strftime(t.e.y, t.e.m, t.e.d)]

\* ShaanxiScraper.parse_detail_page, the dates: the meta Description first,
\* the content area when the description did not give both dates.
ShaanxiDetailDates(desc, body) ==
    LET fromMeta == ShaanxiPatternAssign(desc, NoRange)
        dates_found_in_meta == fromMeta.start # NoIso /\ fromMeta.end # NoIso
    IN IF dates_found_in_meta THEN fromMeta ELSE ShaanxiPatternAssign(body, fromMeta)

----------------------------------------------------------------------------
(* utils.DateParser and BaseParser.extract_date_range *)

\* DateParser.parse_date_string(date_str): 年, 月 become '-', 日 is dropped,
\* then '%Y-%m-%d' is tried ('%Y%m%d' and the format with a time never fit a
\* text with separators).
ParseDateString(t) ==
    IF t.style \in {"cjk", "dash"} /\ ValidDate(t.y, t.m, t.d)
    THEN Strftime(t.y, t.m, t.d)
    ELSE NoIso

\* DateParser.extract_date_range(text) on a text with one 至: the two halves
\* go through parse_date_string; without 至 the result is (None, None).
DateParserRange(t) ==
    IF t.sep = "zhi"
    THEN [start |-> ParseDateString(t.s), end |-> ParseDateString(t.e)]
    ELSE NoRange

\* The string a date text is matched as, after the replacements of
\* extract_date_range ('年', '月', '.' to '-', '日' dropped), parsed with
\* '%Y-%m-%d': NoIso when strptime raises.
Strptime(y, m, d) == IF ValidDate(y, m, d) THEN Strftime(y, m, d) ELSE NoIso

\* BaseParser.extract_date_range(text).  Of the five patterns the first and
\* the second take ranges with both years (cjk or dash, cjk or dot), the
\* third takes an end date without year after a start date in cjk or dot
\* style; the fourth needs the label 公示期限 and the fifth brackets, which
\* the texts here do not have.  An end date whose text before the first '.'
\* has at most two characters gets the text of the start date before its
\* first '.' as year.
BaseExtractDateRange(t) ==
    LET full == Len(t.s.y) = 4 /\ Len(t.e.y) = 4
        both(styles) == t.s.style \in styles /\ t.e.style \in styles
        first == full /\ both({"cjk", "dash"})
        second == full /\ both({"cjk", "dot"})
        third == Len(t.s.y) = 4 /\ t.e.y = NoYear /\ both({"cjk", "dot"})
        \* len(end_date.split('.')[0]) <= 2: the month of a dot-style end date
        short == t.e.style = "dot"
        \* start_date.split('.')[0]: the year of a dot-style start date, the
        \* whole text otherwise
        year == IF t.s.style = "dot" THEN t.s.y ELSE t.s.y \o t.s.m \o t.s.d
        endYear == IF short THEN year ELSE NoYear
    IN
    IF (first \/ second) /\ Strptime(t.s.y, t.s.m, t.s.d) # NoIso
                            /\ Strptime(t.e.y, t.e.m, t.e.d) # NoIso
    THEN [start |-> Strptime(t.s.y, t.s.m, t.s.d), end |-> Strptime(t.e.y, t.e.m, t.e.d)]
    ELSE IF third /\ Strptime(t.s.y, t.s.m, t.s.d) # NoIso
                  /\ Strptime(endYear, t.e.m, t.e.d) # NoIso
    THEN [start |-> Strptime(t.s.y, t.s.m, t.s.d), end |-> Strptime(endYear, t.e.m, t.e.d)]
    ELSE NoRange

----------------------------------------------------------------------------
(* Detail pages and the parsers of parsers.py.  A page is [meta, head, tag,  *)
(* desc, body, att]: meta is the content of <meta name="ArticleTitle">, head *)
(* the text of the heading element the parser looks for (h1, or the .title   *)
(* of div.public-title-nav), tag the <title> element as [text, suffix]       *)
(* (suffix: the text goes on with " - " and the site's name); NULL is an     *)
(* element that is not there, EMPTY one without text.  desc is the date text *)
(* of the first place the parser looks at (meta Description, or              *)
(* div.zt_xilan_07), body that of the article's content; att is the URL of   *)
(* the attachment link, NULL without one.                                    *)

NoTag == [text |-> NULL, suffix |-> FALSE]

Page(meta, head, tag, desc, body, att) ==
    [meta |-> meta, head |-> head, tag |-> tag, desc |-> desc, body |-> body, att |-> att]

\* SamrParser.get_title: meta, then h1, then <title> without its suffix.
SamrGetTitle(pg) ==
    IF Truthy(pg.meta) THEN pg.meta
    ELSE IF pg.head # NULL THEN pg.head
    ELSE IF pg.tag # NoTag THEN pg.tag.text
    ELSE NULL

\* ChongqingParser.get_title: meta, then <title> without its suffix.
ChongqingGetTitle(pg) ==
    IF Truthy(pg.meta) THEN pg.meta
    ELSE IF pg.tag # NoTag THEN pg.tag.text
    ELSE NULL

\* ShaanxiParser.get_title: meta, then the .title of div.public-title-nav,
\* then <title>, which counts only when it holds a '-'.
ShaanxiGetTitle(pg) ==
    IF Truthy(pg.meta) THEN pg.meta
    ELSE IF pg.head # NULL THEN pg.head
    ELSE IF pg.tag # NoTag /\ pg.tag.suffix THEN pg.tag.text
    ELSE NULL

\* SamrParser.get_date_range.  div.zt_xilan_07, blanks removed:
\* 公示期[：:]*Y年M月D日至Y年M月D日.  Then the article content, or the whole
\* page without one: a range after 公示期 and a colon, or any range whose end
\* date may omit the year (the pattern of plain digits is covered by that
\* one, the pattern with two labels needs labels the texts here do not have).
SamrGetDateRange(pg) ==
    LET z == pg.desc
        first == /\ z.label = "gsq"
                 /\ z.s.style = "cjk" /\ z.e.style = "cjk" /\ z.sep = "zhi"
                 /\ Len(z.s.y) = 4 /\ Len(z.e.y) = 4
        c == IF pg.body # NoText THEN pg.body ELSE pg.desc
        second == Len(c.s.y) = 4 /\ c.sep \in {"zhi", "dash"}
        end_year == IF c.e.y = NoYear THEN c.s.y ELSE c.e.y
    IN
    IF first
    THEN [start |-> [y |-> z.s.y, m |-> IntPad2(z.s.m), d |-> IntPad2(z.s.d)],
          end |-> [y |-> z.e.y, m |-> IntPad2(z.e.m), d |-> IntPad2(z.e.d)]]
    ELSE IF second
    THEN [start |-> [y |-> c.s.y, m |-> IntPad2(c.s.m), d |-> IntPad2(c.s.d)],
          end |-> [y |-> end_year, m |-> IntPad2(c.e.m), d |-> IntPad2(c.e.d)]]
    ELSE NoRange

\* 公示日期：(.*?至.*?)(?:联系邮箱|$) finds a range in the text.
ChongqingPatternMatches(t) ==
    t.label = "gsrq" /\ ~t.spaced /\ t.colon = "full" /\ t.sep = "zhi"

\* ChongqingParser.get_date_range: the meta Description, then the article.
ChongqingGetDateRange(pg) ==
    IF ChongqingPatternMatches(pg.desc) THEN DateParserRange(pg.desc)
    ELSE IF ChongqingPatternMatches(pg.body) THEN DateParserRange(pg.body)
    ELSE NoRange

\* get_attachment_url of the parsers: the link that was found, or None.
GetAttachmentUrl(pg) == pg.att

NoParse ==
    [ok |-> FALSE, case_name |-> NULL, notice_start_date |-> NoIso,
     notice_end_date |-> NoIso, attachment_url |-> NULL]

\* A parse() that gives up on a page without a date range.
ParseNeedingDates(title, range, attachment_url) ==
    IF ~Truthy(title) \/ range = NoRange THEN NoParse
    ELSE [ok |-> TRUE, case_name |-> title, notice_start_date |-> range.start,
          notice_end_date |-> range.end, attachment_url |-> attachment_url]

\* BaseParser.parse: None without a title, the record otherwise.
Parse(title, range, attachment_url) ==
    IF ~Truthy(title) THEN NoParse
    ELSE [ok |-> TRUE, case_name |-> title, notice_start_date |-> range.start,
          notice_end_date |-> range.end, attachment_url |-> attachment_url]

----------------------------------------------------------------------------
(* Specification SpecParse: one detail page, drawn from the pages below, is  *)
(* parsed by one of three parsers.  run holds the page and, after the call,  *)
(* the parser, the title and the date range it extracted and what parse()   *)
(* returned.                                                                 *)

CjkRange(label, spaced, style, ey) ==
    RangeText(label, spaced, "full", DateText(<<2, 0, 2, 5>>, <<3>>, <<1, 9>>, style), "zhi",
              DateText(ey, <<3>>, <<2, 8>>, style))

PageTexts ==
    {NoText,
     CjkRange("gsq", FALSE, "cjk", <<2, 0, 2, 5>>),
     CjkRange("gsrq", FALSE, "cjk", <<2, 0, 2, 5>>),
     CjkRange("gsrq", FALSE, "dot", <<2, 0, 2, 5>>),
     CjkRange("none", FALSE, "cjk", NoYear)}

PageTags ==
    {NoTag, [text |-> EMPTY, suffix |-> FALSE], [text |-> "Tt", suffix |-> FALSE],
     [text |-> "Tt", suffix |-> TRUE]}

Pages ==
    {Page(meta, head, tag, desc, body, att) :
        meta \in {NULL, EMPTY, "Tm"}, head \in {NULL, EMPTY, "Th"}, tag \in PageTags,
        desc \in PageTexts, body \in PageTexts, att \in {NULL, "u"}}

Parsed(pg, parser, title, range) ==
    [pc |-> "parsed", page |-> pg, parser |-> parser, title |-> title, range |-> range,
     result |-> Parse(title, range, GetAttachmentUrl(pg))]

ParseSamr ==
    /\ run.pc = "page"
    /\ run' = Parsed(run.page, "samr", SamrGetTitle(run.page), SamrGetDateRange(run.page))
    /\ UNCHANGED <<store, files, now, last, pager>>

ParseChongqing ==
    /\ run.pc = "page"
    /\ run' = Parsed(run.page, "chongqing", ChongqingGetTitle(run.page),
                     ChongqingGetDateRange(run.page))
    /\ UNCHANGED <<store, files, now, last, pager>>

ParseShaanxi ==
    /\ run.pc = "page"
    /\ run' = Parsed(run.page, "shaanxi", ShaanxiGetTitle(run.page),
                     ShaanxiParserDateRange(run.page.body))
    /\ UNCHANGED <<store, files, now, last, pager>>

ParseInit ==
    /\ InitStore
    /\ run \in {[pc |-> "page", page |-> pg] : pg \in Pages}
    /\ pager = PagerIdle

ParseNext ==
    \/ ParseSamr
    \/ ParseChongqing
    \/ ParseShaanxi

SpecParse == ParseInit /\ [][ParseNext]_vars

----------------------------------------------------------------------------
(* Specification SpecFunctions: the page type resolver and the date          *)
(* functions are applied to one input each; run holds the input and the      *)
(* value returned.                                                           *)

\* utils.PageTypeIdentifier.  A URL is the set of the domain strings that
\* occur in it; identify_page_type tests them one after the other.
IdentifyPageTypeLast(url) ==
    IF "snamr.shaanxi.gov.cn" \in url THEN "shaanxi"
    ELSE IF "amr.gd.gov.cn" \in url THEN "guangdong"
    ELSE IF "scjgj.sh.gov.cn" \in url THEN "shanghai"
    ELSE IF "scjgj.cq.gov.cn" \in url THEN "chongqing"
    ELSE IF "scjgj.beijing.gov.cn" \in url THEN "beijing"
    ELSE IF "samr.gov.cn" \in url THEN "samr"
    ELSE NULL

IdentifyPageType(url) ==
    IF "samr.gov.cn" \in url THEN "samr"
    ELSE IF "scjgj.beijing.gov.cn" \in url THEN "beijing"
    ELSE IF "scjgj.cq.gov.cn" \in url THEN "chongqing"
    ELSE IF "scjgj.sh.gov.cn" \in url THEN "shanghai"
    ELSE IF "amr.gd.gov.cn" \in url THEN "guangdong"
    ELSE IF "snamr.shaanxi.gov.cn" \in url THEN "shaanxi"
    ELSE NULL

\* REGION_MAP.get(page_type, '未知')
GetRegion(page_type) ==
    CASE page_type = "samr" -> RegionHead
      [] page_type = "beijing" -> RegionBeijing
      [] page_type = "chongqing" -> RegionChongqing
      [] page_type = "shanghai" -> RegionShanghai
      [] page_type = "guangdong" -> RegionGuangdong
      [] page_type = "shaanxi" -> RegionShaanxi
      [] OTHER -> RegionUnknown

Domains ==
    {"samr.gov.cn", "scjgj.beijing.gov.cn", "scjgj.cq.gov.cn", "scjgj.sh.gov.cn",
     "amr.gd.gov.cn", "snamr.shaanxi.gov.cn"}

\* The resolver is asked about a URL, and the region of its answer is looked up.
Resolve ==
    /\ run = RunIdle
    /\ \E url \in SUBSET Domains :
          run' = [pc |-> "resolved", url |-> url, page_type |-> IdentifyPageType(url),
                  region |-> GetRegion(IdentifyPageType(url))]
    /\ UNCHANGED <<store, files, now, last, pager>>

ResolverHosts ==
    {HostSamr, HostBeijing, HostShanghai, HostChongqing, HostGuangdong, HostShaanxi,
     HostOther}

\* The domain strings that occur in the URL.
Contained(url) == {d \in Domains : <<url[1], d>> \in DomainIn}

\* Both resolvers, PageTypeIdentifier.identify_page_type with get_region and
\* CaseScraper.get_page_type with get_region_name, are asked about one URL.
ResolveBoth ==
    /\ run = RunIdle
    /\ \E url \in ResolverHosts \X {1} :
          run' = [pc |-> "compared", url |-> url,
                  identified |-> IdentifyPageType(Contained(url)),
                  page_type |-> GetPageType(url),
                  region |-> GetRegion(IdentifyPageType(Contained(url))),
                  region_name |-> GetRegionName(GetPageType(url))]
    /\ UNCHANGED <<store, files, now, last, pager>>

\* The date and range texts the date functions are applied to.
StartTexts ==
    {DateText(<<2, 0, 2, 5>>, m, d, style) :
        m \in {<<3>>, <<1, 3>>}, d \in {<<5>>, <<1, 9>>}, style \in {"cjk", "dot", "dash"}}

EndTexts ==
    {DateText(y, <<3>>, d, style) :
        y \in {<<2, 0, 2, 5>>, NoYear}, d \in {<<9>>, <<2, 8>>},
        style \in {"cjk", "dot", "dash"}}

RangeTexts ==
    {RangeText(label, spaced, "full", a, sep, b) :
        label \in {"gsq", "none"}, spaced \in BOOLEAN, a \in StartTexts,
        sep \in {"zhi", "dash"}, b \in EndTexts}

Ranged(fn, t, range) == [pc |-> "ranged", fn |-> fn, text |-> t, range |-> range]

\* ApprovalScraper.convert_chinese_date is applied to a date text.
Normalize ==
    /\ run = RunIdle
    /\ \E t \in StartTexts \cup EndTexts :
          run' = [pc |-> "normalized", text |-> t, date |-> ConvertChineseDate(t)]
    /\ UNCHANGED <<store, files, now, last, pager>>

\* ShaanxiParser.get_date_range on a div.news-content with the text.
RangeShaanxiParser ==
    /\ run = RunIdle
    /\ \E t \in RangeTexts : run' = Ranged("shaanxi_parser", t, ShaanxiParserDateRange(t))
    /\ UNCHANGED <<store, files, now, last, pager>>

\* ShaanxiScraper.parse_detail_page on a page that has the text in its meta
\* Description or in its content area.
RangeShaanxiDetail ==
    /\ run = RunIdle
    /\ \E t \in RangeTexts :
          \/ run' = Ranged("shaanxi_meta", t, ShaanxiDetailDates(t, NoText))
          \/ run' = Ranged("shaanxi_content", t, ShaanxiDetailDates(NoText, t))
    /\ UNCHANGED <<store, files, now, last, pager>>

\* BaseParser.extract_date_range on the text.
RangeBase ==
    /\ run = RunIdle
    /\ \E t \in RangeTexts : run' = Ranged("base", t, BaseExtractDateRange(t))
    /\ UNCHANGED <<store, files, now, last, pager>>

\* SamrParser.get_date_range on a page with the text as its article content.
RangeSamr ==
    /\ run = RunIdle
    /\ \E t \in RangeTexts :
          run' = Ranged("samr", t,
                        SamrGetDateRange(Page(NULL, NULL, NoTag, NoText, t, NULL)))
    /\ UNCHANGED <<store, files, now, last, pager>>

FunctionsInit ==
    /\ InitStore
    /\ run = RunIdle
    /\ pager = PagerIdle

FunctionsNext ==
    \/ Resolve
    \/ ResolveBoth
    \/ Normalize
    \/ RangeShaanxiParser
    \/ RangeShaanxiDetail
    \/ RangeBase
    \/ RangeSamr

SpecFunctions == FunctionsInit /\ [][FunctionsNext]_vars

----------------------------------------------------------------------------
(* The export artifact data/cases.xlsx and the export operations.  The       *)
(* artifact is NoArtifact (no file) or [layout, rows]: rows are the rows by  *)
(* case name with their dates and region, layout tells the columns: "six"    *)
(* are the columns the Beijing, Chongqing and Shanghai exports name,         *)
(* "indexed" those with the column `index` that reset_index() puts in front  *)
(* of them, "seven" the columns of CaseScraper.export_data and DataExporter  *)
(* (来源网址 and a timestamp), "wide" the union of several of these.  An      *)
(* export returns [store, artifact, written, result, raised]: raised tells   *)
(* that an exception left the function.  io = "fail" is an export whose      *)
(* reading or writing raises.                                                *)

NoArtifact == [layout |-> "none", rows |-> {}]

ArtifactRow(c) ==
    [name |-> c.case_name, start |-> c.notice_start_date, end |-> c.notice_end_date,
     region |-> c.region]

Exported(cases, artifact, written, result) ==
    [store |-> cases, artifact |-> artifact, written |-> written, result |-> result,
     raised |-> FALSE]

\* None as the value an export returns.
NoResult == [none |-> TRUE]

Success(rows) == [none |-> FALSE, total_cases |-> Cardinality(rows)]

\* DataExporter.export_to_excel with the exception of a failed export left
\* to the caller.
ExportToExcelRaising(cases, artifact, io) ==
    IF io = "fail"
    THEN [store |-> cases, artifact |-> artifact, written |-> FALSE, result |-> NoResult,
          raised |-> TRUE]
    ELSE Exported(cases, [layout |-> "seven", rows |-> {ArtifactRow(c) : c \in cases}],
                  TRUE, [none |-> FALSE, excel_path |-> "path"])

\* DataExporter.export_to_excel: one row per case, written to the path; None
\* when anything raises.
ExportToExcel(cases, artifact, io) ==
    IF io = "fail" THEN Exported(cases, artifact, FALSE, NoResult)
    ELSE Exported(cases, [layout |-> "seven", rows |-> {ArtifactRow(c) : c \in cases}],
                  TRUE, [none |-> FALSE, excel_path |-> "path"])

\* CaseScraper.export_data: the table read from `cases` is written over the
\* file.
CaseScraperExportData(cases, artifact, io) ==
    LET rows == {ArtifactRow(c) : c \in cases} IN
    IF io = "fail" THEN Exported(cases, artifact, FALSE, NoResult)
    ELSE Exported(cases, [layout |-> "seven", rows |-> rows], TRUE, Success(rows))

\* BeijingScraper.export_data.  A file with other columns than the six makes
\* the assignment of the column names raise, and the rows of the store alone
\* are written, as they are without a file; reset_index() of the frame that
\* has no index yet adds the column `index`.
BeijingExportData(cases, artifact, io) ==
    LET current == {ArtifactRow(c) : c \in cases}
        InStore(r) == \E c \in current : c.name = r.name
        Of(r) == CHOOSE c \in current : c.name = r.name
        Merged(r) ==
            IF ~InStore(r) THEN r
            ELSE [name |-> r.name,
                  start |-> IF r.start = NoDate THEN Of(r).start ELSE r.start,
                  end |-> IF r.end = NoDate THEN Of(r).end ELSE r.end,
                  region |-> RegionBeijing]
        added == {c \in current : ~\E r \in artifact.rows : r.name = c.name}
        final == {Merged(r) : r \in artifact.rows} \cup added
    IN
    IF io = "fail" THEN Exported(cases, artifact, FALSE, NoResult)
    ELSE IF artifact.layout = "six"
    THEN Exported(cases, [layout |-> "six", rows |-> final], TRUE, Success(final))
    ELSE Exported(cases, [layout |-> "indexed", rows |-> current], TRUE, Success(current))

\* ShanghaiScraper.export_data: the rows of the file and of the store are
\* concatenated and of the rows of one case name the last is kept.
ShanghaiExportData(cases, artifact, io) ==
    LET current == {ArtifactRow(c) : c \in cases}
        kept == {r \in artifact.rows : ~\E c \in current : c.name = r.name}
        combined == kept \cup current
        layout == IF artifact.layout \in {"none", "six"} THEN "six"
                  ELSE IF artifact.layout = "indexed" THEN "indexed"
                  ELSE "wide"
    IN
    IF io = "fail" THEN Exported(cases, artifact, FALSE, NoResult)
    ELSE Exported(cases, [layout |-> layout, rows |-> combined], TRUE, Success(combined))

\* ShaanxiScraper.export_data: the frame of the rows of the file, updated
\* from the store, and of the new cases is built and counted; nothing writes
\* it.  None for a store without records.
ShaanxiExportData(cases, artifact, io) ==
    LET current == {ArtifactRow(c) : c \in cases}
        new_cases == {c \in current : ~\E r \in artifact.rows : r.name = c.name}
        final == IF artifact.rows = {} THEN current ELSE artifact.rows \cup new_cases
    IN
    IF io = "fail" \/ cases = {} THEN Exported(cases, artifact, FALSE, NoResult)
    ELSE Exported(cases, artifact, FALSE,
                  [none |-> FALSE, total_cases |-> Cardinality({r.name : r \in final})])

----------------------------------------------------------------------------
(* Specification SpecExport: a store of cases A and B and a file that may    *)
(* hold rows of the cases A and C; the export operations are called one      *)
(* after the other.  run holds the artifact, the artifact before the last    *)
(* call (before) and before the first (original), and what the last call     *)
(* returned.                                                                 *)

MaxExports == 2

ExportStores ==
    {cs \in SUBSET {Case(1, "A", NoDate, NoDate, <<HostBeijing, 1>>, RegionBeijing, NoPath, 1),
                    Case(1, "A", 1, 2, <<HostBeijing, 1>>, RegionBeijing, NoPath, 1),
                    Case(2, "B", 1, 2, <<HostShanghai, 2>>, RegionShanghai, NoPath, 1)} :
        /\ cs # {}
        /\ \A c, d \in cs : c.id = d.id => c = d}

ExportArtifacts ==
    {NoArtifact} \cup
    {[layout |-> layout, rows |-> rs] :
        layout \in {"six", "seven"},
        rs \in {rs \in SUBSET {[name |-> "A", start |-> NoDate, end |-> NoDate, region |-> RegionBeijing],
                               [name |-> "A", start |-> 3, end |-> 4, region |-> RegionBeijing],
                               [name |-> "A", start |-> 3, end |-> NoDate, region |-> RegionBeijing],
                               [name |-> "C", start |-> 5, end |-> 6, region |-> RegionSamr]} :
                    \A r, q \in rs : r.name = q.name => r = q}}

AfterExport(by, io, out) ==
    [pc |-> "exported", n |-> run.n + 1, by |-> by, io |-> io, original |-> run.original,
     before |-> run.artifact, artifact |-> out.artifact, written |-> out.written,
     result |-> out.result, raised |-> out.raised]

Export(by, io, out) ==
    /\ run.n < MaxExports
    /\ run' = AfterExport(by, io, out)
    /\ store' = out.store
    /\ UNCHANGED <<files, now, last, pager>>

ExBeijing == \E io \in {"ok", "fail"} : Export("beijing", io, BeijingExportData(store, run.artifact, io))

ExShanghai == \E io \in {"ok", "fail"} : Export("shanghai", io, ShanghaiExportData(store, run.artifact, io))

ExShaanxi == \E io \in {"ok", "fail"} : Export("shaanxi", io, ShaanxiExportData(store, run.artifact, io))

ExCaseScraper ==
    \E io \in {"ok", "fail"} : Export("scraper", io, CaseScraperExportData(store, run.artifact, io))

ExExporter == \E io \in {"ok", "fail"} : Export("exporter", io, ExportToExcel(store, run.artifact, io))

ExInit ==
    /\ store \in ExportStores
    /\ files = {}
    /\ now = 1
    /\ last = NoOp
    /\ pager = PagerIdle
    /\ run \in {[pc |-> "start", n |-> 0, by |-> NULL, io |-> "ok", original |-> a, before |-> a,
                  artifact |-> a, written |-> FALSE, result |-> NoResult, raised |-> FALSE] :
                    a \in ExportArtifacts}

ExNext ==
    \/ ExBeijing
    \/ ExShanghai
    \/ ExShaanxi
    \/ ExCaseScraper
    \/ ExExporter

SpecExport == ExInit /\ [][ExNext]_vars

----------------------------------------------------------------------------
(* Properties of the parsers *)

\* C22 (parser contract): parse() returns no record exactly when no title
\* was extracted; a page with a title yields a record also when no date
\* range and no attachment URL were extracted, the dates and the URL of the
\* record being null then.
ParserContract ==
    run.pc = "parsed" =>
        /\ ~Truthy(run.title) => ~run.result.ok
        /\ Truthy(run.title) =>
              /\ run.result.ok
              /\ run.result.case_name = run.title
        /\ run.result = NoParse \/ run.result.ok

\* parse() has returned a record without dates and without attachment URL.
ParsedWithoutDates ==
    /\ run.pc = "parsed"
    /\ run.result.ok
    /\ run.result.notice_start_date = NoIso
    /\ run.result.notice_end_date = NoIso
    /\ run.result.attachment_url = NULL

\* The first value of a sequence of strategy results that is not empty.
RECURSIVE FirstTruthy(_)
FirstTruthy(vals) ==
    IF vals = <<>> THEN NULL
    ELSE IF Truthy(Head(vals)) THEN Head(vals)
    ELSE FirstTruthy(Tail(vals))

\* C23 (ordered fallback): the title a parser extracts is the first non-empty
\* value of its strategies in their order (none when all are empty), and the
\* date range of the Chongqing parser is the range of the first of its two
\* places that yields one: a place that matches but yields nothing usable
\* does not keep the later ones from being tried.
FallbackIsOrdered ==
    run.pc = "parsed" =>
        LET pg == run.page
            marked == IF pg.tag.suffix THEN pg.tag.text ELSE NULL
            titles == CASE run.parser = "samr" -> <<pg.meta, pg.head, pg.tag.text>>
                        [] run.parser = "chongqing" -> <<pg.meta, pg.tag.text>>
                        [] run.parser = "shaanxi" -> <<pg.meta, pg.head, marked>>
            fromDesc == IF ChongqingPatternMatches(pg.desc) THEN DateParserRange(pg.desc)
                        ELSE NoRange
            fromBody == IF ChongqingPatternMatches(pg.body) THEN DateParserRange(pg.body)
                        ELSE NoRange
        IN
        /\ Truthy(FirstTruthy(titles)) => run.title = FirstTruthy(titles)
        /\ ~Truthy(FirstTruthy(titles)) => ~Truthy(run.title)
        /\ run.parser = "chongqing" =>
              run.range = IF fromDesc # NoRange THEN fromDesc ELSE fromBody

\* The domains in the order identify_page_type tests them, with their sources
\* and the labels of REGION_MAP.
ResolverOrder ==
    << <<"samr.gov.cn", "samr", RegionHead>>,
       <<"scjgj.beijing.gov.cn", "beijing", RegionBeijing>>,
       <<"scjgj.cq.gov.cn", "chongqing", RegionChongqing>>,
       <<"scjgj.sh.gov.cn", "shanghai", RegionShanghai>>,
       <<"amr.gd.gov.cn", "guangdong", RegionGuangdong>>,
       <<"snamr.shaanxi.gov.cn", "shaanxi", RegionShaanxi>> >>

\* C24 (page type resolver): for every URL the resolver answers with the
\* source of the first domain, in the fixed order, that the URL contains, and
\* with the unresolved value when it contains none; get_region gives that
\* source's label, the unknown label for the unresolved value; the call
\* changes nothing of the store, the files or the clock.
ResolverFirstMatch ==
    [][run'.pc = "resolved" =>
          LET hits == {i \in 1..Len(ResolverOrder) : ResolverOrder[i][1] \in run'.url}
              first == CHOOSE i \in hits : \A j \in hits : i <= j
          IN
          /\ hits = {} => run'.page_type = NULL /\ run'.region = RegionUnknown
          /\ hits # {} => /\ run'.page_type = ResolverOrder[first][2]
                          /\ run'.region = ResolverOrder[first][3]
          /\ UNCHANGED <<store, files, now, last, pager>>]_vars

\* A URL that contains two of the domains has been resolved.
ResolvedAmbiguousUrl ==
    /\ run.pc = "resolved"
    /\ Cardinality(run.url) >= 2
    /\ run.page_type # NULL

\* YYYY-MM-DD of a date text: month and day with a leading zero when they
\* have one digit.
Padded(ds) == IF Len(ds) = 1 THEN <<0, ds[1]>> ELSE ds

Normalized(t) == [y |-> t.y, m |-> Padded(t.m), d |-> Padded(t.d)]

\* The date text is Y年M月D日 and names a day of the calendar.
ChineseDate(t) == t.style = "cjk" /\ ValidDate(t.y, t.m, t.d)

\* C29 (date normalization): Y年M月D日 is normalized to YYYY-MM-DD with month
\* and day padded to two digits; a range 公示期：A至B gives normalize(A) as
\* start and normalize(B) as end, with or without blanks between the
\* characters of the label.
DatesNormalized ==
    /\ run.pc = "normalized" /\ ChineseDate(run.text) => run.date = Normalized(run.text)
    /\ /\ run.pc = "ranged"
       /\ run.fn \in {"shaanxi_parser", "shaanxi_meta", "shaanxi_content"}
       /\ run.text.label = "gsq" /\ run.text.sep = "zhi"
       /\ ChineseDate(run.text.s) /\ ChineseDate(run.text.e)
       => /\ run.range.start = Normalized(run.text.s)
          /\ run.range.end = Normalized(run.text.e)

\* A range with one-digit month and day after a label written with blanks
\* has been extracted by the parser.
SpacedLabelRangeExtracted ==
    /\ run.pc = "ranged"
    /\ run.fn = "shaanxi_parser"
    /\ run.text.label = "gsq" /\ run.text.spaced /\ run.text.sep = "zhi"
    /\ ChineseDate(run.text.s) /\ ChineseDate(run.text.e)
    /\ Len(run.text.s.d) = 1 /\ Len(run.text.e.d) = 1
    /\ run.range # NoRange

\* C30 (truncated end date): an end date written without its year, in the
\* style of the start date (年/月/日, dots or dashes), is completed with the
\* year of the start date, by BaseParser.extract_date_range and by
\* SamrParser.get_date_range.
TruncatedEndTakesStartYear ==
    /\ run.pc = "ranged"
    /\ run.fn \in {"base", "samr"}
    /\ run.text.e.y = NoYear
    /\ run.text.s.style = run.text.e.style
    /\ ValidDate(run.text.s.y, run.text.s.m, run.text.s.d)
    => /\ run.range.start = Normalized([y |-> run.text.s.y, m |-> run.text.s.m, d |-> run.text.s.d])
       /\ run.range.end = Normalized([y |-> run.text.s.y, m |-> run.text.e.m, d |-> run.text.e.d])

----------------------------------------------------------------------------
(* Properties of the export *)

\* C25 (monotonic fill of the artifact): an export by the Beijing, Shaanxi or
\* Shanghai scraper leaves every non-empty start and end date of a row of
\* the file as it was; it only fills dates that are empty.
ExportFillsOnly ==
    run.pc = "exported" /\ run.by \in {"beijing", "shaanxi", "shanghai"} =>
        \A r \in run.before.rows :
            \A q \in run.artifact.rows :
                q.name = r.name =>
                    /\ r.start # NoDate => q.start = r.start
                    /\ r.end # NoDate => q.end = r.end

\* C26 (export preserves and appends): after any sequence of exports that
\* reported success, every case name of the file as it was before the first
\* export is still in the file, and so is the name of every record of the
\* store.
ExportPreservesAndAppends ==
    run.pc = "exported" /\ run.result # NoResult =>
        LET names == {r.name : r \in run.artifact.rows} IN
        /\ \A r \in run.original.rows : r.name \in names
        /\ \A c \in store : c.case_name \in names

\* C27 (export completeness): an export that returns a result has written
\* the file, and the file holds a row for every record of the store.
ExportSuccessMeansWritten ==
    run.pc = "exported" /\ run.by \in {"shaanxi", "exporter"} /\ run.result # NoResult =>
        /\ run.written
        /\ run.artifact # NoArtifact
        /\ \A c \in store : \E r \in run.artifact.rows : r.name = c.case_name

\* C28 (export does not touch the store): an export leaves the records of
\* the store as they are, whether it succeeds or fails, and a failing export
\* returns None; no exception leaves the function.
ExportLeavesStore ==
    [][run'.pc = "exported" =>
          /\ store' = store
          /\ ~run'.raised
          /\ run'.io = "fail" => run'.result = NoResult]_vars

\* An export of the exporter has failed and returned None.
ExportFailedQuietly ==
    /\ run.pc = "exported"
    /\ run.by = "exporter"
    /\ run.io = "fail"
    /\ run.result = NoResult
    /\ store # {}

----------------------------------------------------------------------------
(* Properties of the store over sequences of reconciliations *)

\* C31 (case_name stays unique): starting from a store in which no two
\* records share a case_name (the empty store), after any sequence of
\* reconciliations, an update that renames the record to the title of the
\* detail page included, no two records share a case_name.
CaseNameStaysUnique ==
    \A p, q \in store : p.case_name = q.case_name => p = q

\* C32 (pager position tracking): whenever parse_list_page_playwright(url, N)
\* has returned a list of cases, the browser shows listing page N and
\* current_page is N, whatever the earlier requests returned.
PagerTracksPosition ==
    pager.pc = "idle" /\ pager.result = "ok" =>
        /\ pager.shown = pager.target
        /\ pager.cur = pager.target

\* C33 (page numbering of the static-URL adapters): the n-th listing page of
\* a traversal is numbered n, so that a run with page limit M against a source
\* of at least M pages, all of them fetched without error, has handed the
\* cases of exactly M pages to reconciliation when it is over.
LimitLetsFirstPagesThrough ==
    /\ run.pc = "done"
    /\ run.maxPage # 0
    /\ Len(run.site) >= run.maxPage
    /\ run.clean
    => run.listed = run.maxPage

\* C34 (unbounded runs terminate): in a run without page limit, a request
\* for a listing page that yields no cases, by an error or by a response
\* that lists nothing, ends the traversal: the run goes on to its export and
\* fetches no further listing page.
EmptyPageEndsTraversal ==
    [][/\ run.pc = "fetch" /\ run.maxPage = 0
       /\ run'.fetches = run.fetches + 1
       /\ run'.queue = <<>>
       => run'.pc = "export"]_vars

\* C35 (attachments are not conflated): the detail pages of two cases link
\* different attachment URLs, so no two records of different cases carry the
\* same attachment_path.
AttachmentsNotConflated ==
    \A p, q \in store :
        /\ p.case_name # q.case_name
        /\ p.attachment_path # NoPath
        /\ AttachmentOf(p.case_name) # AttachmentOf(q.case_name)
        => p.attachment_path # q.attachment_path

\* C36 (the two URL resolvers agree): for every URL identify_page_type and
\* get_page_type name the same source, and get_region and get_region_name
\* give the same label for it.
ResolversAgree ==
    run.pc = "compared" =>
        /\ run.identified = run.page_type
        /\ run.region = run.region_name

\* C37 (export keeps regions faithful): after an export that wrote the
\* artifact, every row of the artifact carries the region of the store record
\* with the same case name.
ExportRegionsFaithful ==
    run.pc = "exported" /\ run.written =>
        \A r \in run.artifact.rows : \A c \in store :
            c.case_name = r.name => r.region = c.region

\* C38 (approval scrape is idempotent on the matched flag): when the table
\* that was processed and committed last is processed again, with nothing
\* else done in between, every record keeps the matched flag it had.
ApprovalFlagIdempotent ==
    [][/\ last.op = "approval" /\ last'.op = "approval"
       /\ run'.rows = run.rows
       => \A r \in store : \A q \in store' : q.id = r.id => q.matched = r.matched]_vars

\* C39 (concurrent runs do not duplicate): when two runs that reconcile a
\* case of the same name, not stored before, have both committed, the store
\* holds at most one record of that name.
ConcurrentRunsDoNotDuplicate ==
    /\ run.pc = "concurrent"
    /\ \A p \in Procs : run.proc[p].pc = "committed"
    /\ FinalTitle(run.proc[1]) = FinalTitle(run.proc[2])
    => Cardinality(Matching(store, FinalTitle(run.proc[1]))) <= 1

\* C40 (dedup maintenance loses no case): every case_name that a record of
\* the store carries before a maintenance pass is carried by a record of the
\* store after it.
DedupLosesNoCase ==
    [][last'.op = "dedup" =>
          \A r \in store : \E q \in store' : q.case_name = r.case_name]_vars

====
